---- MODULE Spec2Model ----
(***************************************************************************)
(* A model of the legion backend: the agent registry                       *)
(* (app/core/agent_registry.py), the routing agent (app/agents/router.py)  *)
(* and the testing agent (app/agents/testing.py).                          *)
(*                                                                         *)
(* Texts are sequences of strings, confidences are hundredths (0.7 = 70),  *)
(* and an oracle (LLM) call or a handler call is an await whose outcome    *)
(* is chosen when the await returns.                                       *)
(***************************************************************************)
EXTENDS Integers, Sequences, FiniteSets, TLC

VARIABLES
    registry,         \* AgentRegistry._agents: entries in dict (insertion) order
    history,          \* the register calls made so far, in order
    pc,               \* RouterAgent.process: the await it is suspended at
    now,              \* the wall clock, one tick per completed await
    start_time,       \* RouterAgent.process: start_time
    intent,           \* RouterAgent.process: intent
    needs_agent,      \* RouterAgent.process: needs_agent
    direct_kind,      \* which of the three direct-response call sites is awaited
    selected_agents,  \* RouterAgent.process: selected_agents
    tasks,            \* _execute_agents: state of each gathered task
    agent_responses,  \* RouterAgent.process: agent_responses
    reply,            \* what process handed to its caller
    outcome,          \* "pending" | "returned" | "raised"
    log,              \* oracle calls, handler starts and finishes, in order
    tpc,              \* TestingAgent._run_single_test: the await it is suspended at
    test_case,        \* _run_single_test: test_case
    agent_result,     \* _run_single_test: agent_result
    cmp_reply,        \* what the comparison oracle answered
    comparison,       \* _run_single_test: comparison
    case_result,      \* what _run_single_test returned
    case_outcome,     \* "pending" | "returned" | "raised"
    tlog,             \* the harness's handler and oracle calls, in order
    message,          \* TestingAgent.process: context["message"]
    test_suite,       \* TestingAgent.test_suite: the corpus, in file order
    hpc,              \* TestingAgent.process: the call or await it is suspended at
    results,          \* _run_all_tests: results
    treply,           \* what TestingAgent.process handed to its caller
    toutcome,         \* "pending" | "returned" | "raised"
    last_read,        \* the latest registry lookup made from outside a request, and its result
    spc,              \* SupportAgent.process: the await it is suspended at
    iteration,        \* SupportAgent.process: iteration
    messages,         \* SupportAgent.process: messages
    tool_calls,       \* SupportAgent.process: the tool calls of the response not yet handled
    tools_used,       \* SupportAgent.process: tools_used
    sreply,           \* what SupportAgent.process handed to its caller
    rpc,              \* Retriever.retrieve: the await it is suspended at
    attempt,          \* Retriever.retrieve: attempt
    rlog,             \* the retriever's embed, search and sleep calls, in order
    rresult,          \* what Retriever.retrieve returned or raised
    epc,              \* the /api/test endpoint: the await it is suspended at
    http              \* the HTTP answer of the /api/test endpoint

harnessVars == <<message, test_suite, hpc, results, treply, toutcome>>

readVars == <<last_read>>

supportVars == <<spc, iteration, messages, tool_calls, tools_used, sreply>>

retrieverVars == <<rpc, attempt, rlog, rresult>>

endpointVars == <<epc, http>>

handlerVars == <<supportVars, retrieverVars, endpointVars>>

testVars == <<tpc, test_case, agent_result, cmp_reply, comparison, case_result,
              case_outcome, tlog, harnessVars, readVars, handlerVars>>

vars == <<registry, history, pc, now, start_time, intent, needs_agent, direct_kind,
          selected_agents, tasks, agent_responses, reply, outcome, log, testVars>>

routerVars == <<pc, now, start_time, intent, needs_agent, direct_kind,
                selected_agents, tasks, agent_responses, reply, outcome, log>>

-----------------------------------------------------------------------------
(* Bounds and value sets *)

MaxRegs == 3

GENERAL_QUESTION == "general_question"

IntentType == {"product_info", "customer_support", "general_question", "system_testing"}

\* the intents the modelled handlers list
ServedIntents == {"product_info", "general_question"}

Priorities == {0, 3, 5}

RouterName == "router_agent"

Range(s) == {s[i] : i \in DOMAIN s}

-----------------------------------------------------------------------------
(* AgentMetadata and AgentRegistry *)

AgentMetadata(name, intents, capabilities, priority, inst) ==
    [name |-> name, intents |-> intents, capabilities |-> capabilities,
     priority |-> priority, agent_instance |-> inst]

NameIndex(reg, name) ==
    IF \E i \in DOMAIN reg : reg[i].name = name
    THEN CHOOSE i \in DOMAIN reg : reg[i].name = name
    ELSE 0

\* faulty variant of register: a second registration of a name is added, not overwritten
RegisterAppend(reg, metadata) == Append(reg, metadata)

\* faulty variant of register: the first registration of a name wins
RegisterKeepFirst(reg, metadata) ==
    IF NameIndex(reg, metadata.name) = 0 THEN Append(reg, metadata) ELSE reg

\* faulty variant: an overwrite moves the name to the end of the dict
RegisterReinsert(reg, metadata) ==
    Append(SelectSeq(reg, LAMBDA agent : agent.name # metadata.name), metadata)

\* self._agents[metadata.name] = metadata : a dict keeps a key's place on overwrite
register(reg, metadata) ==
    IF NameIndex(reg, metadata.name) = 0
    THEN Append(reg, metadata)
    ELSE [reg EXCEPT ![NameIndex(reg, metadata.name)] = metadata]

get_agent(reg, name) ==
    IF NameIndex(reg, name) = 0 THEN << >> ELSE <<reg[NameIndex(reg, name)]>>

find_agents_by_intent(reg, i) == SelectSeq(reg, LAMBDA agent : i \in agent.intents)

RECURSIVE IntentMapFrom(_, _, _)
IntentMapFrom(reg, k, intent_map) ==
    IF k > Len(reg) THEN intent_map
    ELSE LET agent == reg[k]
             next == [i \in (DOMAIN intent_map) \cup agent.intents |->
                        IF i \in agent.intents
                        THEN Append(IF i \in DOMAIN intent_map THEN intent_map[i] ELSE << >>,
                                    agent)
                        ELSE intent_map[i]]
         IN IntentMapFrom(reg, k + 1, next)

\* faulty variant: every intent is a key, served or not
AvailableIntentsAllKeys(reg) == [i \in IntentType |-> find_agents_by_intent(reg, i)]

get_available_intents(reg) == IntentMapFrom(reg, 1, << >>)

-----------------------------------------------------------------------------
(* RouterAgent._classify_intent: the oracle's reply and its parsing *)

MaxClassifyLines == 2

IntentVals == ServedIntents \cup {"casual_greeting", "bogus"}

NeedsVals == {"true", "false", "yes"}

\* one line of the lower-cased reply: the label it contains and the text after it
ClassifyLines ==
    [label : {"intent"}, val : IntentVals] \cup
    [label : {"needs_agent"}, val : NeedsVals] \cup
    {[label |-> "other", val |-> ""]}

SeqsUpTo(S, n) == UNION {[1..k -> S] : k \in 0..n}

ClassifyReplies == SeqsUpTo(ClassifyLines, MaxClassifyLines)

\* the for loop over response_text.split('\n')
RECURSIVE ParseClassifyFrom(_, _, _)
ParseClassifyFrom(lines, k, acc) ==
    IF k > Len(lines) THEN acc
    ELSE LET line == lines[k]
         IN ParseClassifyFrom(lines, k + 1,
              IF line.label = "intent"
              THEN [acc EXCEPT !.intent_str = line.val]
              ELSE IF line.label = "needs_agent"
                   THEN [acc EXCEPT !.needs_agent = (line.val = "true")]
                   ELSE acc)

ParseClassification(lines) ==
    ParseClassifyFrom(lines, 1, [intent_str |-> "None", needs_agent |-> TRUE])

\* faulty variant: a label the map does not hold is handed on as the intent
MapIntentUnchecked(available_intents, intent_str) ==
    IF intent_str \in {"casual_greeting", "None"} THEN GENERAL_QUESTION ELSE intent_str

\* dynamic_intent_map.get(intent_str, GENERAL_QUESTION)
MapIntent(available_intents, intent_str) ==
    IF intent_str = "casual_greeting" THEN GENERAL_QUESTION
    ELSE IF intent_str \in DOMAIN available_intents THEN intent_str
         ELSE GENERAL_QUESTION

\* faulty variant: the except branch gives up instead of asking for a handler
ClassifyFailedNoAgent == [intent |-> GENERAL_QUESTION, needs_agent |-> FALSE]

\* except Exception: return GENERAL_QUESTION, True
ClassifyFailed == [intent |-> GENERAL_QUESTION, needs_agent |-> TRUE]

\* the oracle raised, answered something that is not a text, or answered lines
ClassifyOutcomes == {[kind |-> "raise", lines |-> << >>], [kind |-> "nontext", lines |-> << >>]}
                    \cup {[kind |-> "reply", lines |-> r] : r \in ClassifyReplies}

ClassifyResult(reg, oc) ==
    IF oc.kind # "reply" THEN ClassifyFailed
    ELSE LET p == ParseClassification(oc.lines)
         IN [intent |-> MapIntent(get_available_intents(reg), p.intent_str),
             needs_agent |-> p.needs_agent]

-----------------------------------------------------------------------------
(* RouterAgent._select_agents *)

\* a is placed after every element whose priority is at least its own
RECURSIVE InsertByPriority(_, _)
InsertByPriority(s, a) ==
    IF Len(s) = 0 THEN <<a>>
    ELSE IF Head(s).priority >= a.priority
         THEN <<Head(s)>> \o InsertByPriority(Tail(s), a)
         ELSE <<a>> \o s

\* sorted(candidates, key=lambda a: a.priority, reverse=True): a stable sort
RECURSIVE SortedByPriorityDesc(_)
SortedByPriorityDesc(s) ==
    IF Len(s) = 0 THEN << >>
    ELSE InsertByPriority(SortedByPriorityDesc(SubSeq(s, 1, Len(s) - 1)), s[Len(s)])

\* faulty variant: the secondary is taken whatever its priority
SelectTopTwo(candidates) ==
    IF Len(candidates) = 0 THEN << >>
    ELSE IF Len(candidates) = 1 THEN <<candidates[1].agent_instance>>
    ELSE LET sorted_candidates == SortedByPriorityDesc(candidates)
         IN <<sorted_candidates[1].agent_instance, sorted_candidates[2].agent_instance>>

\* faulty variant: every candidate tied with the primary is taken
SelectAllTied(candidates) ==
    IF Len(candidates) = 0 THEN << >>
    ELSE LET sorted_candidates == SortedByPriorityDesc(candidates)
             tied == SelectSeq(sorted_candidates,
                               LAMBDA a : a.priority = sorted_candidates[1].priority)
         IN [k \in 1..Len(tied) |-> tied[k].agent_instance]

\* faulty variant: a lone candidate is taken only if its priority is positive
SelectPositiveOnly(candidates) ==
    IF Len(candidates) = 0 THEN << >>
    ELSE IF Len(candidates) = 1
         THEN IF candidates[1].priority > 0 THEN <<candidates[1].agent_instance>> ELSE << >>
    ELSE LET sorted_candidates == SortedByPriorityDesc(candidates)
             primary == sorted_candidates[1]
             secondary == sorted_candidates[2]
         IN IF secondary.priority = primary.priority
            THEN <<primary.agent_instance, secondary.agent_instance>>
            ELSE <<primary.agent_instance>>

\* faulty variant: among equal priorities the later candidate comes first
SelectLaterOnTie(candidates) ==
    IF Len(candidates) = 0 THEN << >>
    ELSE IF Len(candidates) = 1 THEN <<candidates[1].agent_instance>>
    ELSE LET reversed == [k \in 1..Len(candidates) |-> candidates[Len(candidates) + 1 - k]]
             sorted_candidates == SortedByPriorityDesc(reversed)
             primary == sorted_candidates[1]
             secondary == sorted_candidates[2]
         IN IF secondary.priority = primary.priority
            THEN <<primary.agent_instance, secondary.agent_instance>>
            ELSE <<primary.agent_instance>>

_select_agents(candidates) ==
    IF Len(candidates) = 0 THEN << >>
    ELSE IF Len(candidates) = 1 THEN <<candidates[1].agent_instance>>
    ELSE LET sorted_candidates == SortedByPriorityDesc(candidates)
             primary == sorted_candidates[1]
             secondary == sorted_candidates[2]
         IN IF secondary.priority = primary.priority
            THEN <<primary.agent_instance, secondary.agent_instance>>
            ELSE <<primary.agent_instance>>

-----------------------------------------------------------------------------
(* Handler results and the router's replies *)

\* the BaseAgent object: self.name and its identity
Instance(name, id) == [name |-> name, id |-> id]

\* what awaiting a handler's process can end with: a result mapping, a mapping
\* without a "response" key, a value that is no mapping (None), an exception
HandlerOutcomes == {"ok", "noresp", "nonmap", "raise"}

ErrMsg == "msg"

\* the mapping a handler returned
HandlerReturn(name, oc) ==
    [response |-> IF oc = "ok" THEN <<"answer of", name>> ELSE << >>,
     has_response |-> (oc = "ok"), agent |-> name, error |-> FALSE]

\* faulty variant: a handler's exception yields a result that is not flagged
SyntheticUnflagged(name) ==
    [response |-> <<"Error from", name, ErrMsg>>, has_response |-> TRUE,
     agent |-> name, error |-> FALSE]

\* {"response": f"Error from {name}: {str(response)}", "agent": name, "metadata": {"error": True}}
SyntheticResult(name) ==
    [response |-> <<"Error from", name, ErrMsg>>, has_response |-> TRUE,
     agent |-> name, error |-> TRUE]

\* faulty variant: a task that is still running counts as finished
FinishedEarly(t) == t # "pending"

\* gather returns once every awaitable has returned or raised
Finished(t) == t \in HandlerOutcomes

\* faulty variant: gather without return_exceptions: the first exception is raised to the caller
ExecuteNoIsolation(agents, ts) ==
    IF \E k \in DOMAIN ts : ts[k] \in {"nonmap", "raise"}
    THEN [raised |-> TRUE, results |-> << >>]
    ELSE [raised |-> FALSE, results |-> [k \in DOMAIN ts |-> HandlerReturn(agents[k].name, ts[k])]]

\* faulty variant: the results are collected in reverse
ExecuteReversed(agents, ts) ==
    IF \E k \in DOMAIN ts : ts[k] = "nonmap"
    THEN [raised |-> TRUE, results |-> << >>]
    ELSE [raised |-> FALSE,
          results |-> [k \in DOMAIN ts |->
                        LET j == Len(ts) + 1 - k
                        IN IF ts[j] = "raise" THEN SyntheticResult(agents[j].name)
                           ELSE HandlerReturn(agents[j].name, ts[j])]]

\* _execute_agents after gather(return_exceptions=True) returned: the loop over the
\* responses; response.get on a value that is no mapping raises out of the loop
ExecuteResults(agents, ts) ==
    IF \E k \in DOMAIN ts : ts[k] = "nonmap"
    THEN [raised |-> TRUE, results |-> << >>]
    ELSE [raised |-> FALSE,
          results |-> [k \in DOMAIN ts |->
                        IF ts[k] = "raise" THEN SyntheticResult(agents[k].name)
                        ELSE HandlerReturn(agents[k].name, ts[k])]]

\* " / ".join([r.get("response", "") for r in responses])
RECURSIVE JoinResponses(_)
JoinResponses(responses) ==
    IF Len(responses) = 0 THEN << >>
    ELSE IF Len(responses) = 1 THEN responses[1].response
    ELSE responses[1].response \o <<"/">> \o JoinResponses(Tail(responses))

\* responses[0].get("response", "No response generated")
SingleResponse(r) == IF r.has_response THEN r.response ELSE <<"No response generated">>

OracleText(what) == <<"oracle", what>>

NoReply == [response |-> << >>, agent |-> "none", metadata |-> [none |-> TRUE]]

\* faulty variant: the outer handler logs and re-raises
CatchAllReraise(t) == [outcome |-> "raised", reply |-> NoReply]

\* process: except Exception as e (lines 301-316)
CatchAll(t) ==
    [outcome |-> "returned",
     reply |-> [response |-> <<"Error processing request", ErrMsg>>,
                agent |-> RouterName,
                metadata |-> [confidence |-> 0, processing_time_ms |-> t,
                              error |-> ErrMsg]]]

\* what the direct-reply oracle can do: answer a text, answer the empty text, raise
DirectOutcomes == {"ok", "empty", "raise"}

\* response.content, handed on as it is (line 146)
DirectContent(oc) == IF oc = "ok" THEN OracleText("direct") ELSE << >>

\* faulty variant: the failure branch of the direct reply drops the error field
DirectResponseNoError(oc) ==
    [response |-> IF oc = "raise" THEN <<"Hello! How can I help you today?">>
                  ELSE DirectContent(oc),
     agent |-> RouterName,
     metadata |-> [confidence |-> IF oc = "raise" THEN 50 ELSE 80,
                   processing_time_ms |-> 0, direct_response |-> TRUE]]

\* faulty variant: the failure branch reports the confidence of the success branch
DirectResponseSameConfidence(oc) ==
    [response |-> IF oc = "raise" THEN <<"Hello! How can I help you today?">>
                  ELSE DirectContent(oc),
     agent |-> RouterName,
     metadata |-> IF oc = "raise"
                  THEN [confidence |-> 80, processing_time_ms |-> 0,
                        direct_response |-> TRUE, error |-> ErrMsg]
                  ELSE [confidence |-> 80, processing_time_ms |-> 0,
                        direct_response |-> TRUE]]

\* _handle_direct_response: the oracle answered (a text, or the empty text) or raised
_handle_direct_response(oc) ==
    IF oc # "raise"
    THEN [response |-> DirectContent(oc), agent |-> RouterName,
          metadata |-> [confidence |-> 80, processing_time_ms |-> 0,
                        direct_response |-> TRUE]]
    ELSE [response |-> <<"Hello! How can I help you today?">>, agent |-> RouterName,
          metadata |-> [confidence |-> 50, processing_time_ms |-> 0,
                        direct_response |-> TRUE, error |-> ErrMsg]]

\* result["metadata"][key] = value
SetMeta(result, key, value) ==
    [result EXCEPT !.metadata =
        [k \in (DOMAIN result.metadata) \cup {key} |->
            IF k = key THEN value ELSE result.metadata[k]]]

\* faulty variant: the helper's placeholder time is left in the direct reply
DirectReplyPlaceholder(kind, oc, t) ==
    LET result == _handle_direct_response(oc)
    IN IF kind = "no_candidate"
       THEN SetMeta(result, "note", "No specialized agent available, using direct response")
       ELSE result

\* faulty variant: the no-candidate fallback forgets the note
DirectReplyNoNote(kind, oc, t) ==
    SetMeta(_handle_direct_response(oc), "processing_time_ms", t)

\* process: the three call sites of _handle_direct_response (lines 238-248, 258-263, 273-276)
DirectReply(kind, oc, t) ==
    LET result == SetMeta(_handle_direct_response(oc), "processing_time_ms", t)
    IN IF kind = "no_candidate"
       THEN SetMeta(result, "note", "No specialized agent available, using direct response")
       ELSE result

\* process: the reply of the dispatched path (lines 290-300)
DispatchReply(int, agents, responses, combined, t) ==
    [response |-> combined, agent |-> RouterName,
     metadata |-> [intent |-> int,
                   selected_agents |-> [k \in DOMAIN agents |-> agents[k].name],
                   agent_responses |-> [k \in DOMAIN responses |-> responses[k].agent],
                   confidence |-> 90,
                   processing_time_ms |-> t]]

\* faulty variant: the candidates are looked up and dispatched whether or not the
\* classification asked for a handler
RouteIgnoringNeed(reg, int, needs) ==
    LET candidates == find_agents_by_intent(reg, int)
    IN IF Len(candidates) = 0
       THEN [pc |-> "DirectReply", direct_kind |-> IF needs THEN "no_candidate" ELSE "no_need",
             selected |-> << >>, lookup |-> TRUE]
       ELSE [pc |-> "Dispatch", direct_kind |-> "none", selected |-> _select_agents(candidates),
             lookup |-> TRUE]

\* process: from the classification to the next await (lines 237-278)
Route(reg, int, needs) ==
    IF ~needs
    THEN [pc |-> "DirectReply", direct_kind |-> "no_need", selected |-> << >>,
          lookup |-> FALSE]
    ELSE LET candidates == find_agents_by_intent(reg, int)
         IN IF Len(candidates) = 0
            THEN [pc |-> "DirectReply", direct_kind |-> "no_candidate", selected |-> << >>,
                  lookup |-> TRUE]
            ELSE LET selected == _select_agents(candidates)
                 IN IF Len(selected) = 0
                    THEN [pc |-> "DirectReply", direct_kind |-> "none_selected",
                          selected |-> << >>, lookup |-> TRUE]
                    ELSE [pc |-> "Dispatch", direct_kind |-> "none", selected |-> selected,
                          lookup |-> TRUE]

Ev(ev, who) == [ev |-> ev, who |-> who]

\* faulty variant: the fallback join writes a placeholder for a missing response text
CombineJoinPlaceholder(responses, oc) ==
    IF Len(responses) = 1 THEN SingleResponse(responses[1])
    ELSE IF oc = "ok" THEN OracleText("combined")
         ELSE JoinResponses([k \in DOMAIN responses |->
                                [responses[k] EXCEPT !.response = SingleResponse(responses[k])]])

\* faulty variant: a single result is sent to the aggregation oracle too
CombineAlwaysOracle(responses, oc) ==
    IF oc = "ok" THEN OracleText("combined") ELSE JoinResponses(responses)

\* _combine_responses: one result passes through, several are merged by the oracle
\* (oc = "ok") or, when the oracle raises, joined
_combine_responses(responses, oc) ==
    IF Len(responses) = 1 THEN SingleResponse(responses[1])
    ELSE IF oc = "ok" THEN OracleText("combined")
         ELSE JoinResponses(responses)

-----------------------------------------------------------------------------
(* TestingAgent._compare_responses: the oracle's reply and its parsing *)

MaxVerdictLines == 2

\* one line of the reply: the label its lower-cased text contains, whether the
\* label is written in lower case in the line itself, and the text after it
VerdictLines ==
    [label : {"match"}, lower : BOOLEAN, val : {"true", "false"}] \cup
    [label : {"confidence"}, lower : {TRUE},
     val : {"0.9", "0.7", "1.5", "-1", "95", "high"}] \cup
    {[label |-> "confidence", lower |-> FALSE, val |-> "0.9"]} \cup
    [label : {"differences"}, lower : {TRUE}, val : {"none", "d1, d2"}] \cup
    {[label |-> "differences", lower |-> FALSE, val |-> "none"]} \cup
    [label : {"similarities", "reason"}, lower : BOOLEAN, val : {"s1"}] \cup
    {[label |-> "other", lower |-> TRUE, val |-> ""]}

VerdictReplies == SeqsUpTo(VerdictLines, MaxVerdictLines)

\* float(conf_str.split()[0]), in hundredths
ParseFloat(tok) ==
    IF tok = "0.9" THEN [ok |-> TRUE, value |-> 90]
    ELSE IF tok = "0.7" THEN [ok |-> TRUE, value |-> 70]
    ELSE IF tok = "1.5" THEN [ok |-> TRUE, value |-> 150]
    ELSE IF tok = "-1" THEN [ok |-> TRUE, value |-> -100]
    ELSE IF tok = "95" THEN [ok |-> TRUE, value |-> 9500]
    ELSE [ok |-> FALSE, value |-> 0]

\* [d.strip() for d in text.split(',') if d.strip()]
SplitCommas(tok) ==
    IF tok = "d1, d2" THEN <<"d1", "d2">>
    ELSE IF tok = "" THEN << >>
    ELSE <<tok>>

\* the result dict before the loop
VerdictDefault ==
    [match |-> FALSE, confidence |-> 0, reason |-> <<"Could not parse comparison">>,
     differences |-> << >>, similarities |-> << >>]

\* the result dict of the except branch
VerdictError(msg) ==
    [match |-> FALSE, confidence |-> 0, reason |-> <<"Comparison error", msg>>,
     differences |-> << >>, similarities |-> << >>]

IndexErrorMsg == "list index out of range"

\* faulty variant: a confidence that is no number is fatal for the whole reply
VerdictLineStrict(acc, line) ==
    IF acc.raised THEN acc
    ELSE IF line.label = "match"
         THEN [acc EXCEPT !.result.match = (line.val = "true")]
    ELSE IF line.label = "confidence"
         THEN IF line.lower /\ ParseFloat(line.val).ok
              THEN [acc EXCEPT !.result.confidence = ParseFloat(line.val).value]
              ELSE [acc EXCEPT !.raised = TRUE]
    ELSE IF line.label = "other" THEN acc
    ELSE IF ~line.lower THEN [acc EXCEPT !.raised = TRUE]
    ELSE IF line.label = "differences"
         THEN IF line.val # "none"
              THEN [acc EXCEPT !.result.differences = SplitCommas(line.val)]
              ELSE acc
    ELSE IF line.label = "similarities"
         THEN [acc EXCEPT !.result.similarities = SplitCommas(line.val)]
    ELSE [acc EXCEPT !.result.reason = <<line.val>>]

\* faulty variant: a confidence that is no number is read as full confidence
VerdictLineLenient(acc, line) ==
    IF line.label = "confidence" /\ ~(line.lower /\ ParseFloat(line.val).ok)
    THEN [acc EXCEPT !.result.confidence = 100]
    ELSE VerdictLineStrict(acc, line)

\* one pass of the loop body (lines 148-165): line.split(label)[1] on the line as
\* written raises IndexError when the label is not there in lower case; only the
\* confidence branch catches it
VerdictLine(acc, line) ==
    IF acc.raised THEN acc
    ELSE IF line.label = "match"
         THEN [acc EXCEPT !.result.match = (line.val = "true")]
    ELSE IF line.label = "confidence"
         THEN IF line.lower /\ ParseFloat(line.val).ok
              THEN [acc EXCEPT !.result.confidence = ParseFloat(line.val).value]
              ELSE acc
    ELSE IF line.label = "other" THEN acc
    ELSE IF ~line.lower THEN [acc EXCEPT !.raised = TRUE]
    ELSE IF line.label = "differences"
         THEN IF line.val # "none"
              THEN [acc EXCEPT !.result.differences = SplitCommas(line.val)]
              ELSE acc
    ELSE IF line.label = "similarities"
         THEN [acc EXCEPT !.result.similarities = SplitCommas(line.val)]
    ELSE [acc EXCEPT !.result.reason = <<line.val>>]

RECURSIVE ParseVerdictFrom(_, _, _)
ParseVerdictFrom(lines, k, acc) ==
    IF k > Len(lines) THEN acc
    ELSE ParseVerdictFrom(lines, k + 1, VerdictLine(acc, lines[k]))

\* the comparison oracle raised, answered something that is not a text, or
\* answered lines
CompareOutcomes == {[kind |-> "raise", lines |-> << >>], [kind |-> "nontext", lines |-> << >>]}
                   \cup {[kind |-> "reply", lines |-> r] : r \in VerdictReplies}

NoCompare == [kind |-> "none", lines |-> << >>]

\* faulty variant: the except branch lets the exception out
CompareNoCatch(oc) ==
    IF oc.kind = "reply" /\ ~ParseVerdictFrom(oc.lines, 1, [raised |-> FALSE, result |-> VerdictDefault]).raised
    THEN [raised |-> FALSE,
          result |-> ParseVerdictFrom(oc.lines, 1, [raised |-> FALSE, result |-> VerdictDefault]).result]
    ELSE [raised |-> TRUE, result |-> VerdictDefault]

\* _compare_responses (lines 135-176): [raised, result]
_compare_responses(oc) ==
    IF oc.kind = "raise" THEN [raised |-> FALSE, result |-> VerdictError(ErrMsg)]
    ELSE IF oc.kind = "nontext"
         THEN [raised |-> FALSE, result |-> VerdictError("no attribute strip")]
    ELSE LET p == ParseVerdictFrom(oc.lines, 1, [raised |-> FALSE, result |-> VerdictDefault])
         IN IF p.raised
            THEN [raised |-> FALSE, result |-> VerdictError(IndexErrorMsg)]
            ELSE [raised |-> FALSE, result |-> p.result]

-----------------------------------------------------------------------------
(* TestingAgent._get_agent_response and _run_single_test *)

KnowledgeName == "knowledge_agent"

\* the value _get_agent_response hands back: a mapping, or whatever the handler
\* returned in its place
Mapping(response, has_response, agent, error) ==
    [kind |-> "mapping", response |-> response, has_response |-> has_response,
     agent |-> agent, error |-> error]

NotAMapping == [kind |-> "none", response |-> << >>, has_response |-> FALSE,
                agent |-> "", error |-> ""]

NoResult == [kind |-> "unset", response |-> << >>, has_response |-> FALSE,
             agent |-> "", error |-> ""]

\* agent_instance: Optional[Any] = None
NoInstance == [name |-> "", id |-> 0]

\* faulty variant: the entry is enough, its instance is not looked at
KnowledgeEntryPresent(reg) == Len(get_agent(reg, KnowledgeName)) = 1

\* lines 73-80: the registry has a knowledge handler with a live instance
KnowledgeAvailable(reg) ==
    /\ Len(get_agent(reg, KnowledgeName)) = 1
    /\ get_agent(reg, KnowledgeName)[1].agent_instance # NoInstance

KnowledgeUnavailableResult ==
    Mapping(<<"Knowledge agent not available">>, TRUE, "unknown", "")

\* faulty variant: the handler's exception is let out of _get_agent_response
AgentResponseNoCatch(oc) ==
    IF oc = "raise" THEN [raised |-> TRUE, result |-> NoResult]
    ELSE IF oc = "nonmap" THEN [raised |-> FALSE, result |-> NotAMapping]
    ELSE [raised |-> FALSE,
          result |-> Mapping(IF oc = "ok" THEN <<"answer of", KnowledgeName>> ELSE << >>,
                             oc = "ok", KnowledgeName, "")]

\* _get_agent_response after knowledge_agent.process returned or raised (lines 90-98)
AgentResponse(oc) ==
    IF oc = "raise"
    THEN [raised |-> FALSE,
          result |-> Mapping(<<"Error", ErrMsg>>, TRUE, KnowledgeName, ErrMsg)]
    ELSE IF oc = "nonmap" THEN [raised |-> FALSE, result |-> NotAMapping]
    ELSE [raised |-> FALSE,
          result |-> Mapping(IF oc = "ok" THEN <<"answer of", KnowledgeName>> ELSE << >>,
                             oc = "ok", KnowledgeName, "")]

PassThreshold == 70

\* faulty variant: the threshold is inclusive
StatusInclusive(verdict) ==
    IF verdict.match /\ verdict.confidence >= PassThreshold THEN "PASS" ELSE "FAIL"

\* "PASS" if comparison["match"] and comparison["confidence"] > 0.7 else "FAIL"
Status(verdict) ==
    IF verdict.match /\ verdict.confidence > PassThreshold THEN "PASS" ELSE "FAIL"

\* faulty variant: a case that failed is run again
RetryOnFail(status) == IF status = "FAIL" THEN "Start" ELSE "Scored"

\* _run_single_test returns once the case has a status, whatever the status is
\* (lines 210, 226)
AfterStatus(status) == "Scored"

\* the dict returned at lines 210-222
ScoredOutcome(tc, result, verdict) ==
    [test_id |-> tc.id, question |-> tc.question, status |-> Status(verdict),
     confidence |-> verdict.confidence, match |-> verdict.match,
     expected_answer |-> tc.expected_answer, actual_response |-> result.response, agent_error |-> result.error,
     comparison |-> verdict]

\* the dict returned at lines 226-235
ErrorOutcome(tc, msg) ==
    [test_id |-> tc.id, question |-> tc.question, status |-> "ERROR",
     confidence |-> 0, match |-> FALSE, error |-> msg]

NoOutcome == [test_id |-> "", question |-> << >>, status |-> "none"]

AttributeErrorMsg == "no attribute get"

TestCases == [id : {"t1"}, question : {<<"q1">>, <<"q2">>}, expected_answer : {"e1"}]

NoCase == [id |-> "", question |-> << >>, expected_answer |-> ""]

KnowledgeEntry(i) ==
    AgentMetadata(KnowledgeName, {"product_info", "general_question"}, {"rag_retrieval"}, 3,
                  Instance(KnowledgeName, i))

TestingEntry(i) ==
    AgentMetadata("testing_agent", {"system_testing"}, {"test_execution"}, 1,
                  Instance("testing_agent", i))

\* an entry registered under the knowledge handler's name without an instance
KnowledgeEntryNoInstance ==
    AgentMetadata(KnowledgeName, {"product_info", "general_question"}, {"rag_retrieval"}, 3,
                  NoInstance)

\* the registry with and without the knowledge handler, and with an entry of that
\* name that has no instance
TestRegistries ==
    {<<TestingEntry(1)>>, <<KnowledgeEntry(1), TestingEntry(2)>>,
     <<TestingEntry(1), KnowledgeEntry(2)>>,
     <<KnowledgeEntryNoInstance, TestingEntry(1)>>}

\* TestingAgent.process is not running
HarnessIdle ==
    /\ message = << >>
    /\ test_suite = << >>
    /\ hpc = "Idle"
    /\ results = << >>
    /\ treply = NoReply
    /\ toutcome = "pending"

TestIdle ==
    /\ tpc = "Idle"
    /\ test_case = NoCase
    /\ agent_result = NoResult
    /\ cmp_reply = NoCompare
    /\ comparison = VerdictDefault
    /\ case_result = NoOutcome
    /\ case_outcome = "pending"
    /\ tlog = << >>
    /\ HarnessIdle

-----------------------------------------------------------------------------
(* The registries a request can meet: any handlers, registered in any order *)

\* handlers are told apart by name only, so the k-th registered one is named
\* RegistrationOrder[k]
RegistrationOrder == <<"a", "b", "c">>

RouterRegistries ==
    UNION {
        {[i \in 1..k |-> AgentMetadata(RegistrationOrder[i], attrs[i][1], {}, attrs[i][2],
                                      Instance(RegistrationOrder[i], i))] :
            attrs \in [1..k -> (SUBSET ServedIntents) \X Priorities]} :
        k \in 0..Len(RegistrationOrder)}

NoRead == [op |-> "none", arg |-> "", result |-> << >>]

\* no reply of SupportAgent.process yet
NoSupportReply == [response |-> "", agent |-> "none", tools_used |-> << >>, confidence |-> 0,
                   error |-> ""]

\* Retriever.retrieve has neither returned nor raised
NoRetrieval == [kind |-> "pending", value |-> << >>]

\* the endpoint has not answered
NoHttp == [status |-> 0, detail |-> << >>]

\* no request is in the support handler, the retriever or the /api/test endpoint
HandlersIdle ==
    /\ spc = "Idle"
    /\ iteration = 0
    /\ messages = << >>
    /\ tool_calls = << >>
    /\ tools_used = << >>
    /\ sreply = NoSupportReply
    /\ rpc = "Idle"
    /\ attempt = 0
    /\ rlog = << >>
    /\ rresult = NoRetrieval
    /\ epc = "Idle"
    /\ http = NoHttp

RouterIdle ==
    /\ last_read = NoRead
    /\ HandlersIdle
    /\ now = 1
    /\ start_time = 0
    /\ intent = "none"
    /\ needs_agent = FALSE
    /\ direct_kind = "none"
    /\ selected_agents = << >>
    /\ tasks = << >>
    /\ agent_responses = << >>
    /\ reply = NoReply
    /\ outcome = "pending"
    /\ log = << >>

Init ==
    /\ registry \in RouterRegistries
    /\ history = << >>
    /\ pc = "Received"
    /\ RouterIdle
    /\ TestIdle

-----------------------------------------------------------------------------
(* RouterAgent.process, one action per await *)

\* entry to process up to the first oracle call: the classification, or the direct
\* reply when no intent is served
Receive ==
    /\ pc = "Received"
    /\ start_time' = now
    /\ IF DOMAIN get_available_intents(registry) = {}
       THEN /\ intent' = GENERAL_QUESTION
            /\ needs_agent' = FALSE
            /\ pc' = "DirectReply"
            /\ direct_kind' = "no_need"
            /\ log' = Append(log, Ev("oracle", "direct"))
       ELSE /\ pc' = "Classifying"
            /\ log' = Append(log, Ev("oracle", "classify"))
            /\ UNCHANGED <<intent, needs_agent, direct_kind>>
    /\ UNCHANGED <<testVars, registry, history, now, selected_agents, tasks, agent_responses,
                   reply, outcome>>

\* the classification oracle returned: parse, look up, select, go to the next await
ClassifyReturn(oc) ==
    /\ pc = "Classifying"
    /\ LET c == ClassifyResult(registry, oc)
           r == Route(registry, c.intent, c.needs_agent)
       IN /\ intent' = c.intent
          /\ needs_agent' = c.needs_agent
          /\ pc' = r.pc
          /\ direct_kind' = r.direct_kind
          /\ selected_agents' = r.selected
          /\ tasks' = [k \in DOMAIN r.selected |-> "pending"]
          /\ log' = log
                    \o (IF oc.kind = "reply" THEN << >> ELSE <<Ev("oracle_raise", "classify")>>)
                    \o (IF r.lookup THEN <<Ev("lookup", c.intent)>> ELSE << >>)
                    \o (IF r.pc = "DirectReply" THEN <<Ev("oracle", "direct")>> ELSE << >>)
    /\ now' = now + 1
    /\ UNCHANGED <<testVars, registry, history, start_time, agent_responses, reply, outcome>>

\* the direct-reply oracle returned or raised
DirectReturn(oc) ==
    /\ pc = "DirectReply"
    /\ now' = now + 1
    /\ reply' = DirectReply(direct_kind, oc, now' - start_time)
    /\ outcome' = "returned"
    /\ pc' = "Done"
    /\ log' = IF oc = "raise" THEN Append(log, Ev("oracle_raise", "direct")) ELSE log
    /\ UNCHANGED <<testVars, registry, history, start_time, intent, needs_agent, direct_kind,
                   selected_agents, tasks, agent_responses>>

\* gather starts the tasks in the order given
StartTask(k) ==
    /\ pc = "Dispatch"
    /\ k \in DOMAIN tasks
    /\ tasks[k] = "pending"
    /\ \A j \in 1..(k - 1) : tasks[j] # "pending"
    /\ tasks' = [tasks EXCEPT ![k] = "running"]
    /\ log' = Append(log, Ev("start", selected_agents[k].name))
    /\ UNCHANGED <<testVars, registry, history, pc, now, start_time, intent, needs_agent,
                   direct_kind, selected_agents, agent_responses, reply, outcome>>

\* a handler's process returns or raises, in any order among the running ones
FinishTask(k, oc) ==
    /\ pc = "Dispatch"
    /\ k \in DOMAIN tasks
    /\ tasks[k] = "running"
    /\ tasks' = [tasks EXCEPT ![k] = oc]
    /\ now' = now + 1
    /\ log' = Append(log, Ev(IF oc = "raise" THEN "raise" ELSE "finish",
                             selected_agents[k].name))
    /\ UNCHANGED <<testVars, registry, history, pc, start_time, intent, needs_agent,
                   direct_kind, selected_agents, agent_responses, reply, outcome>>

\* gather returned: collect the results; one result is the reply, two go to the
\* aggregation oracle
GatherReturn ==
    /\ pc = "Dispatch"
    /\ \A k \in DOMAIN tasks : Finished(tasks[k])
    /\ LET ex == ExecuteResults(selected_agents, tasks)
       IN IF ex.raised
          THEN /\ outcome' = CatchAll(now - start_time).outcome
               /\ reply' = CatchAll(now - start_time).reply
               /\ pc' = "Done"
               /\ log' = Append(log, Ev("caught", "process"))
               /\ UNCHANGED agent_responses
          ELSE /\ agent_responses' = ex.results
               /\ IF Len(ex.results) = 1
                  THEN /\ reply' = DispatchReply(intent, selected_agents, ex.results,
                                                 _combine_responses(ex.results, "ok"),
                                                 now - start_time)
                       /\ outcome' = "returned"
                       /\ pc' = "Done"
                       /\ log' = log
                  ELSE /\ pc' = "Aggregating"
                       /\ log' = Append(log, Ev("oracle", "aggregate"))
                       /\ UNCHANGED <<reply, outcome>>
    /\ UNCHANGED <<testVars, registry, history, now, start_time, intent, needs_agent, direct_kind,
                   selected_agents, tasks>>

\* the aggregation oracle returned or raised
AggregateReturn(oc) ==
    /\ pc = "Aggregating"
    /\ now' = now + 1
    /\ reply' = DispatchReply(intent, selected_agents, agent_responses,
                              _combine_responses(agent_responses, oc), now' - start_time)
    /\ outcome' = "returned"
    /\ pc' = "Done"
    /\ log' = IF oc = "ok" THEN log ELSE Append(log, Ev("oracle_raise", "aggregate"))
    /\ UNCHANGED <<testVars, registry, history, start_time, intent, needs_agent, direct_kind,
                   selected_agents, tasks, agent_responses>>

Next ==
    \/ Receive
    \/ \E oc \in ClassifyOutcomes : ClassifyReturn(oc)
    \/ \E oc \in DirectOutcomes : DirectReturn(oc)
    \/ \E k \in DOMAIN tasks : StartTask(k)
    \/ \E k \in DOMAIN tasks, oc \in HandlerOutcomes : FinishTask(k, oc)
    \/ GatherReturn
    \/ \E oc \in {"ok", "raise"} : AggregateReturn(oc)

Spec == Init /\ [][Next]_vars

-----------------------------------------------------------------------------
(* Registration: BaseAgent.__init__ builds the metadata around the new object *)
(* and registers it                                                          *)

RegNames == {"x", "y"}

RegIntents == {{}, {"general_question"}, {"general_question", "product_info"}}

RegCapabilities == {{}, {"rag_retrieval"}}

RegPriorities == {0, 5}

InitRegistry ==
    /\ registry = << >>
    /\ history = << >>
    /\ pc = "Idle"
    /\ RouterIdle
    /\ TestIdle

\* BaseAgent.__init__: the n-th object constructed registers itself
Construct(name, intents, capabilities, priority) ==
    /\ Len(history) < MaxRegs
    /\ LET metadata == AgentMetadata(name, intents, capabilities, priority,
                                     Instance(name, Len(history) + 1))
       IN /\ registry' = register(registry, metadata)
          /\ history' = Append(history, metadata)
    /\ UNCHANGED <<routerVars, testVars>>

NextRegistry ==
    \E name \in RegNames, intents \in RegIntents, capabilities \in RegCapabilities,
       priority \in RegPriorities :
        Construct(name, intents, capabilities, priority)

SpecRegistry == InitRegistry /\ [][NextRegistry]_vars

-----------------------------------------------------------------------------
(* TestingAgent._run_single_test, one action per await *)

InitTest ==
    /\ registry \in TestRegistries
    /\ history = << >>
    /\ pc = "Idle"
    /\ RouterIdle
    /\ tpc = "Start"
    /\ test_case \in TestCases
    /\ agent_result = NoResult
    /\ cmp_reply = NoCompare
    /\ comparison = VerdictDefault
    /\ case_result = NoOutcome
    /\ case_outcome = "pending"
    /\ tlog = << >>
    /\ HarnessIdle

\* entry to _run_single_test up to its first await: the knowledge handler's
\* process, or the comparison oracle when there is no knowledge handler
RunSingleTest ==
    /\ tpc = "Start"
    /\ IF KnowledgeAvailable(registry)
       THEN /\ tpc' = "Dispatch"
            /\ tlog' = Append(tlog, Ev("start", KnowledgeName))
            /\ UNCHANGED agent_result
       ELSE /\ agent_result' = KnowledgeUnavailableResult
            /\ tpc' = "Compare"
            /\ tlog' = Append(tlog, Ev("oracle", "compare"))
    /\ UNCHANGED <<registry, history, readVars, handlerVars, routerVars, harnessVars, test_case, cmp_reply,
                   comparison, case_result, case_outcome>>

\* the knowledge handler returned or raised: read its result and call the
\* comparison oracle; agent_result.get on a value that is no mapping raises into
\* the except branch of _run_single_test
KnowledgeReturn(oc) ==
    /\ tpc = "Dispatch"
    /\ LET r == AgentResponse(oc)
       IN IF r.raised \/ r.result.kind # "mapping"
          THEN /\ agent_result' = r.result
               /\ case_result' = ErrorOutcome(test_case,
                                              IF r.raised THEN ErrMsg ELSE AttributeErrorMsg)
               /\ case_outcome' = "returned"
               /\ tpc' = AfterStatus(case_result'.status)
               /\ tlog' = Append(tlog, Ev(IF oc = "raise" THEN "raise" ELSE "finish",
                                          KnowledgeName))
          ELSE /\ agent_result' = r.result
               /\ tpc' = "Compare"
               /\ tlog' = tlog \o <<Ev(IF oc = "raise" THEN "raise" ELSE "finish",
                                       KnowledgeName),
                                    Ev("oracle", "compare")>>
               /\ UNCHANGED <<case_result, case_outcome>>
    /\ UNCHANGED <<registry, history, readVars, handlerVars, routerVars, harnessVars, test_case, cmp_reply,
                   comparison>>

\* the comparison oracle returned or raised: parse the verdict and score the case
CompareReturn(oc) ==
    /\ tpc = "Compare"
    /\ cmp_reply' = oc
    /\ LET c == _compare_responses(oc)
       IN IF c.raised
          THEN /\ case_result' = ErrorOutcome(test_case, ErrMsg)
               /\ UNCHANGED comparison
          ELSE /\ comparison' = c.result
               /\ case_result' = ScoredOutcome(test_case, agent_result, c.result)
    /\ case_outcome' = "returned"
    /\ tpc' = AfterStatus(case_result'.status)
    /\ tlog' = IF oc.kind = "raise" THEN Append(tlog, Ev("oracle_raise", "compare")) ELSE tlog
    /\ UNCHANGED <<registry, history, readVars, handlerVars, routerVars, harnessVars, test_case, agent_result>>

NextTest ==
    \/ RunSingleTest
    \/ \E oc \in HandlerOutcomes : KnowledgeReturn(oc)
    \/ \E oc \in CompareOutcomes : CompareReturn(oc)

SpecTest == InitTest /\ [][NextTest]_vars

-----------------------------------------------------------------------------
(* TestingAgent.process, _find_test_case and _run_all_tests *)

HarnessName == "testing_agent"

\* a text is a sequence of chunks; Blank is a run of whitespace
Blank == " "

\* str.lower, chunk by chunk
LowerChunk(c) ==
    CASE c = "Q1" -> "q1"
      [] c = "Q3" -> "q3"
      [] c = "Run All" -> "run all"
      [] c = "RUN_ALL" -> "run_all"
      [] OTHER -> c

lower(text) == [k \in DOMAIN text |-> LowerChunk(text[k])]

\* str.strip: whitespace at either end is dropped, inner whitespace is kept
RECURSIVE strip(_)
strip(text) ==
    IF text = << >> THEN << >>
    ELSE IF Head(text) = Blank THEN strip(Tail(text))
    ELSE IF text[Len(text)] = Blank THEN strip(SubSeq(text, 1, Len(text) - 1))
    ELSE text

\* the corpus file: the first and the third question differ in case and in
\* surrounding whitespace only
Corpus ==
    <<[id |-> "t1", question |-> <<"Q1", Blank>>, expected_answer |-> "e1"],
      [id |-> "t2", question |-> <<"q2">>, expected_answer |-> "e2"],
      [id |-> "t3", question |-> <<Blank, "q1">>, expected_answer |-> "e3"]>>

\* _load_test_suite: no file or an unreadable one gives the empty corpus
Corpora == {SubSeq(Corpus, 1, k) : k \in 0..Len(Corpus)}

\* context.get("message", "")
Messages ==
    {<< >>, <<Blank>>, <<"run_all">>, <<Blank, "Run All", Blank>>, <<"RUN_ALL">>,
     <<"q1">>, <<Blank, "Q1">>, <<"q2", Blank>>, <<"q3">>, <<"Q3", Blank>>,
     <<"q1", Blank, "q2">>}

\* the for loop of _find_test_case from case k on: the first case whose question
\* equals the query after lower().strip() on both sides
RECURSIVE FindFrom(_, _, _)
FindFrom(suite, k, query) ==
    IF k > Len(suite) THEN << >>
    ELSE IF strip(lower(suite[k].question)) = strip(lower(query)) THEN <<suite[k]>>
    ELSE FindFrom(suite, k + 1, query)

_find_test_case(suite, query) == FindFrom(suite, 1, query)

CountStatus(rs, status) == Len(SelectSeq(rs, LAMBDA r : r.status = status))

\* passed / len(results) if results else 0.0, in thousandths
PassRate(passed, total) == IF total > 0 THEN (passed * 1000) \div total ELSE 0

\* faulty variant: an ERROR outcome is counted as failed
SuiteResultsErrorsFailed(rs) ==
    [total_tests |-> Len(rs),
     passed |-> CountStatus(rs, "PASS"),
     failed |-> CountStatus(rs, "FAIL") + CountStatus(rs, "ERROR"),
     errors |-> 0,
     pass_rate |-> PassRate(CountStatus(rs, "PASS"), Len(rs)),
     results |-> rs]

\* the dict _run_all_tests returns (lines 250-267)
SuiteResults(rs) ==
    [total_tests |-> Len(rs),
     passed |-> CountStatus(rs, "PASS"),
     failed |-> CountStatus(rs, "FAIL"),
     errors |-> CountStatus(rs, "ERROR"),
     pass_rate |-> PassRate(CountStatus(rs, "PASS"), Len(rs)),
     results |-> rs]

\* faulty variant: the corpus is run from its last case to its first
NextCaseBackwards(suite, rs) == suite[Len(suite) - Len(rs)]

\* for test_case in self.test_suite: the case after those already in results
NextCase(suite, rs) == suite[Len(rs) + 1]

\* process: the replies of lines 274-281, 303-307, 338-342 and 347-363
EmptyMessageReply ==
    [response |-> <<"Please provide a test question or 'run_all' to run all tests.">>,
     agent |-> HarnessName,
     metadata |-> [status |-> "ERROR", error |-> "No message provided"]]

RunAllReply(suite_results) ==
    [response |-> <<"Test Suite Results">> \o
                  [k \in DOMAIN suite_results.results |-> suite_results.results[k].test_id],
     agent |-> HarnessName,
     metadata |-> suite_results]

\* the keys of result the single-case report reads with result[...]
SingleReportKeys ==
    {"test_id", "status", "confidence", "match", "question", "expected_answer",
     "actual_response", "comparison"}

SingleReply(result) ==
    [response |-> <<"Test Result", result.test_id, result.status>>,
     agent |-> HarnessName,
     metadata |-> result]

CustomReply(msg, result) ==
    [response |-> <<"Custom Query Test">> \o msg \o result.response,
     agent |-> HarnessName,
     metadata |-> [status |-> "CUSTOM_QUERY", question |-> msg,
                   actual_response |-> result.response,
                   agent_error |-> result.error]]

\* what the comparison oracle answers in a harness run: it raises, says
\* 'match: true / confidence: 0.9', or says 'match: false'
SuiteCompareOutcomes ==
    {[kind |-> "raise", lines |-> << >>],
     [kind |-> "reply",
      lines |-> <<[label |-> "match", lower |-> TRUE, val |-> "true"],
                  [label |-> "confidence", lower |-> TRUE, val |-> "0.9"]>>],
     [kind |-> "reply", lines |-> <<[label |-> "match", lower |-> TRUE, val |-> "false"]>>]}

\* a request arrives at TestingAgent.process
InitHarness ==
    /\ registry \in TestRegistries
    /\ history = << >>
    /\ pc = "Idle"
    /\ RouterIdle
    /\ tpc = "Idle"
    /\ test_case = NoCase
    /\ agent_result = NoResult
    /\ cmp_reply = NoCompare
    /\ comparison = VerdictDefault
    /\ case_result = NoOutcome
    /\ case_outcome = "pending"
    /\ tlog = << >>
    /\ message \in Messages
    /\ test_suite \in Corpora
    /\ hpc = "Received"
    /\ results = << >>
    /\ treply = NoReply
    /\ toutcome = "pending"

\* process returns r to its caller
Return(r) ==
    /\ treply' = r
    /\ toutcome' = "returned"
    /\ hpc' = "Done"

\* an exception leaves process: there is no try around its body
Escape ==
    /\ toutcome' = "raised"
    /\ hpc' = "Done"
    /\ UNCHANGED treply

\* the call _run_single_test(tc): fresh locals
CallSingleTest(tc) ==
    /\ test_case' = tc
    /\ tpc' = "Start"
    /\ agent_result' = NoResult
    /\ cmp_reply' = NoCompare
    /\ comparison' = VerdictDefault
    /\ case_result' = NoOutcome
    /\ case_outcome' = "pending"

caseLocals == <<test_case, agent_result, cmp_reply, comparison, case_result, case_outcome>>

\* entry to process up to its first call or await (lines 271-312, 344)
Process ==
    /\ hpc = "Received"
    /\ LET msg == strip(message)
       IN IF msg = << >>
          THEN /\ Return(EmptyMessageReply)
               /\ UNCHANGED <<tpc, caseLocals, tlog>>
          ELSE IF lower(msg) \in {<<"run_all">>, <<"run all">>}
          THEN IF test_suite = << >>
               THEN /\ Return(RunAllReply(SuiteResults(<< >>)))
                    /\ UNCHANGED <<tpc, caseLocals, tlog>>
               ELSE /\ hpc' = "RunAll"
                    /\ CallSingleTest(NextCase(test_suite, << >>))
                    /\ tlog' = Append(tlog, Ev("case", NextCase(test_suite, << >>).id))
                    /\ UNCHANGED <<treply, toutcome>>
          ELSE LET found == _find_test_case(test_suite, msg)
               IN IF found # << >>
                  THEN /\ hpc' = "Single"
                       /\ CallSingleTest(found[1])
                       /\ tlog' = Append(tlog, Ev("case", found[1].id))
                       /\ UNCHANGED <<treply, toutcome>>
                  ELSE IF KnowledgeAvailable(registry)
                  THEN /\ hpc' = "Custom"
                       /\ tlog' = Append(tlog, Ev("start", KnowledgeName))
                       /\ UNCHANGED <<tpc, caseLocals, treply, toutcome>>
                  ELSE /\ Return(CustomReply(msg, KnowledgeUnavailableResult))
                       /\ UNCHANGED <<tpc, caseLocals, tlog>>
    /\ UNCHANGED <<registry, history, readVars, handlerVars, routerVars, message, test_suite, results>>

\* _run_single_test returned to _run_all_tests or to process: the next case is
\* started, the suite is summed up, or the single case is reported
CaseReturn ==
    /\ hpc \in {"RunAll", "Single"}
    /\ tpc = "Scored"
    /\ IF hpc = "Single"
       THEN /\ IF SingleReportKeys \subseteq DOMAIN case_result
               THEN Return(SingleReply(case_result))
               ELSE Escape
            /\ tpc' = "Idle"
            /\ tlog' = Append(tlog, Ev("scored", case_result.test_id))
            /\ UNCHANGED <<caseLocals, results>>
       ELSE /\ results' = Append(results, case_result)
            /\ IF Len(results') < Len(test_suite)
               THEN /\ CallSingleTest(NextCase(test_suite, results'))
                    /\ tlog' = tlog \o <<Ev("scored", case_result.test_id),
                                         Ev("case", NextCase(test_suite, results').id)>>
                    /\ UNCHANGED <<hpc, treply, toutcome>>
               ELSE /\ Return(RunAllReply(SuiteResults(results')))
                    /\ tpc' = "Idle"
                    /\ tlog' = Append(tlog, Ev("scored", case_result.test_id))
                    /\ UNCHANGED caseLocals
    /\ UNCHANGED <<registry, history, readVars, handlerVars, routerVars, message, test_suite>>

\* a custom query: the knowledge handler returned or raised (lines 344-363);
\* agent_result.get on a value that is no mapping raises out of process
CustomReturn(oc) ==
    /\ hpc = "Custom"
    /\ LET r == AgentResponse(oc)
       IN /\ agent_result' = r.result
          /\ IF r.raised \/ r.result.kind # "mapping"
             THEN Escape
             ELSE Return(CustomReply(strip(message), r.result))
    /\ tlog' = Append(tlog, Ev(IF oc = "raise" THEN "raise" ELSE "finish", KnowledgeName))
    /\ UNCHANGED <<registry, history, readVars, handlerVars, routerVars, message, test_suite, results, tpc,
                   test_case, cmp_reply, comparison, case_result, case_outcome>>

NextHarness ==
    \/ Process
    \/ RunSingleTest
    \/ \E oc \in HandlerOutcomes : KnowledgeReturn(oc)
    \/ \E oc \in SuiteCompareOutcomes : CompareReturn(oc)
    \/ CaseReturn
    \/ \E oc \in HandlerOutcomes : CustomReturn(oc)

SpecHarness == InitHarness /\ [][NextHarness]_vars

-----------------------------------------------------------------------------
(* Properties of RouterAgent.process *)

Events(ev) == SelectSeq(log, LAMBDA e : e.ev = ev)

Started == [k \in DOMAIN Events("start") |-> Events("start")[k].who]

\* the classification has been routed: the request is past lines 235-278
Routed == pc \in {"DirectReply", "Dispatch", "Aggregating", "Done"}

\* registry.find_agents_by_intent(intent) of the request being served
Candidates == find_agents_by_intent(registry, intent)

PrioritiesOf(s) == [k \in DOMAIN s |-> s[k].priority]

MaxPriority(s) == CHOOSE p \in Range(PrioritiesOf(s)) : \A q \in Range(PrioritiesOf(s)) : q <= p

CandidateNamed(name) == Candidates[CHOOSE k \in DOMAIN Candidates : Candidates[k].name = name]

\* C1: whatever the classification oracle, the registry, the handlers and the
\* aggregation or direct-reply oracle do, process never raises to its caller, and
\* when it is done it has returned a reply with a response text, the router's
\* name as agent and a metadata mapping
C1_AlwaysReplies ==
    /\ outcome # "raised"
    /\ pc = "Done" =>
          /\ outcome = "returned"
          /\ reply # NoReply
          /\ {"response", "agent", "metadata"} \subseteq DOMAIN reply
          /\ reply.agent = RouterName
          /\ {"confidence", "processing_time_ms"} \subseteq DOMAIN reply.metadata
    /\ pc # "Done" => outcome = "pending"

\* C1 witness: a request that ended in the outer except branch was answered
C1_Witness ==
    /\ pc = "Done"
    /\ outcome = "returned"
    /\ Len(Events("caught")) = 1
    /\ reply.metadata.confidence = 0

\* C2: with two handlers dispatched, one raising and the other returning a result
\* mapping, aggregation receives the synthetic 'Error from <name>: <message>'
\* result flagged error = true in the failing handler's place and the other
\* handler's own result unchanged, the other handler ran to completion, and the
\* reply is the dispatched reply, not the outer error reply
C2_Isolation ==
    \A k \in 1..2 :
        (/\ pc \in {"Aggregating", "Done"}
         /\ Len(tasks) = 2
         /\ tasks[k] = "raise"
         /\ tasks[3 - k] \in {"ok", "noresp"})
        => LET failed == selected_agents[k].name
               other == selected_agents[3 - k].name
           IN /\ Len(agent_responses) = 2
              /\ agent_responses[k] =
                    [response |-> <<"Error from", failed, ErrMsg>>, has_response |-> TRUE,
                     agent |-> failed, error |-> TRUE]
              /\ agent_responses[3 - k] =
                    [response |-> IF tasks[3 - k] = "ok" THEN <<"answer of", other>> ELSE << >>,
                     has_response |-> (tasks[3 - k] = "ok"),
                     agent |-> other, error |-> FALSE]
              /\ Ev("start", other) \in Range(log)
              /\ Ev("finish", other) \in Range(log)
              /\ Len(Events("caught")) = 0
              /\ pc = "Done" =>
                    /\ outcome = "returned"
                    /\ "error" \notin DOMAIN reply.metadata
                    /\ reply.metadata.agent_responses = <<selected_agents[1].name,
                                                          selected_agents[2].name>>

\* C2 witness: the first of two handlers raised, the second answered, and the
\* aggregation oracle failed too, so the reply is the join of the two texts
C2_Witness ==
    /\ pc = "Done"
    /\ Len(tasks) = 2
    /\ tasks[1] = "raise"
    /\ tasks[2] = "ok"
    /\ Len(Events("oracle_raise")) = 1
    /\ reply.response = <<"Error from", selected_agents[1].name, ErrMsg, "/",
                          "answer of", selected_agents[2].name>>

\* C3: from more than one candidate, _select_agents takes a handler of maximum
\* priority first, takes a second one only if its priority equals that maximum,
\* and never takes a handler of lower priority; from priorities 5, 5 and 3 it
\* takes exactly the two handlers of priority 5
C3_PriorityTieBreak ==
    (Routed /\ needs_agent /\ Len(Candidates) > 1) =>
        /\ Len(selected_agents) \in {1, 2}
        /\ \A k \in DOMAIN selected_agents :
              /\ \E c \in Range(Candidates) : c.agent_instance = selected_agents[k]
              /\ CandidateNamed(selected_agents[k].name).priority = MaxPriority(Candidates)
        /\ Len(selected_agents) = 2 => selected_agents[1] # selected_agents[2]
        /\ (\E f \in {<<5, 5, 3>>, <<5, 3, 5>>, <<3, 5, 5>>} : PrioritiesOf(Candidates) = f) =>
              /\ Len(selected_agents) = 2
              /\ {a.name : a \in Range(selected_agents)} =
                    {c.name : c \in {d \in Range(Candidates) : d.priority = 5}}

\* C3 witness: candidates of priorities 5, 5, 3 were dispatched
C3_Witness ==
    /\ pc = "Dispatch"
    /\ needs_agent
    /\ PrioritiesOf(Candidates) = <<5, 5, 3>>
    /\ Len(selected_agents) = 2

NumStarted == Len(Events("start"))

\* C4: a request dispatches at most two handlers, also when three candidates tie
\* at the top priority, and at least one whenever its intent has a candidate: the
\* 'no agents selected' fallback is never taken
C4_FanOutBound ==
    /\ Len(selected_agents) <= 2
    /\ Len(tasks) <= 2
    /\ NumStarted <= 2
    /\ Cardinality({k \in DOMAIN tasks : tasks[k] = "running"}) <= 2
    /\ direct_kind # "none_selected"
    /\ (Routed /\ needs_agent /\ Len(Candidates) >= 1) =>
          /\ Len(selected_agents) >= 1
          /\ pc # "DirectReply"
          /\ pc \in {"Aggregating", "Done"} => NumStarted = Len(selected_agents)

\* C4 witness: three candidates tied at the top priority, two of them dispatched
C4_Witness ==
    /\ pc = "Done"
    /\ needs_agent
    /\ Len(Candidates) = 3
    /\ \A c \in Range(Candidates) : c.priority = 5
    /\ NumStarted = 2

\* C5: when exactly one registered handler lists the classified intent, that
\* handler alone is selected and dispatched, whatever its priority and whatever
\* else is registered
C5_SingleCandidate ==
    (Routed /\ needs_agent /\ Len(Candidates) = 1) =>
        /\ selected_agents = <<Candidates[1].agent_instance>>
        /\ Len(tasks) = 1
        /\ pc \in {"Dispatch", "Done"}
        /\ pc = "Done" => Started = <<Candidates[1].name>>

\* C5 witness: the only candidate has priority 0, two handlers of higher
\* priority are registered for another intent, and it was dispatched
C5_Witness ==
    /\ pc = "Done"
    /\ needs_agent
    /\ Len(registry) = 3
    /\ Len(Candidates) = 1
    /\ Candidates[1].priority = 0
    /\ \A a \in Range(registry) : a.name # Candidates[1].name => a.priority > 0
    /\ Started = <<Candidates[1].name>>

\* C6: when the classification asks for a handler and no registered handler lists
\* the intent, process starts no handler and returns a direct reply
\* (direct_response = true) whose metadata carries the note that no specialized
\* handler was available, whether the direct-reply oracle answered or raised
C6_NoCandidate ==
    (Routed /\ needs_agent /\ Len(Candidates) = 0) =>
        /\ pc \in {"DirectReply", "Done"}
        /\ direct_kind = "no_candidate"
        /\ NumStarted = 0
        /\ Len(selected_agents) = 0
        /\ pc = "Done" =>
              /\ outcome = "returned"
              /\ reply.agent = RouterName
              /\ "direct_response" \in DOMAIN reply.metadata
              /\ reply.metadata.direct_response = TRUE
              /\ "note" \in DOMAIN reply.metadata
              /\ reply.metadata.note = "No specialized agent available, using direct response"
              /\ reply.metadata.confidence =
                    IF Ev("oracle_raise", "direct") \in Range(log) THEN 50 ELSE 80

\* C6 witness: the no-candidate fallback whose direct-reply oracle raised
C6_Witness ==
    /\ pc = "Done"
    /\ needs_agent
    /\ Len(Candidates) = 0
    /\ Ev("oracle_raise", "direct") \in Range(log)
    /\ "note" \in DOMAIN reply.metadata

\* a classification, aggregation or direct-reply oracle call raised, or a
\* dispatched handler raised
FailureOccurred == Len(Events("oracle_raise")) + Len(Events("raise")) > 0

\* C7: whenever a failure occurred while the request was served, the final reply's
\* metadata has an error field and its confidence is lower than on the
\* failure-free path (0.8 for a direct reply, 0.9 for a dispatched one)
C7_EveryFailureFlagged ==
    (pc = "Done" /\ FailureOccurred) =>
        /\ "error" \in DOMAIN reply.metadata
        /\ reply.metadata.confidence <
              (IF "direct_response" \in DOMAIN reply.metadata THEN 80 ELSE 90)

-----------------------------------------------------------------------------
(* Properties of AgentRegistry.register *)

Registered(name) == \E k \in DOMAIN history : history[k].name = name

LastCall(name) ==
    history[CHOOSE k \in DOMAIN history :
                /\ history[k].name = name
                /\ \A j \in DOMAIN history : history[j].name = name => j <= k]

\* C8: after any sequence of register calls the registry holds one entry for
\* every name registered and no other, and the entry of a name is the metadata
\* (intents, capabilities, priority, instance) of the latest call with that name
C8_LastWriteWins ==
    /\ \A i, j \in DOMAIN registry : registry[i].name = registry[j].name => i = j
    /\ \A k \in DOMAIN registry : Registered(registry[k].name)
    /\ \A name \in RegNames :
          Registered(name) =>
              /\ get_agent(registry, name) = <<LastCall(name)>>
              /\ Cardinality({k \in DOMAIN registry : registry[k].name = name}) = 1

\* C8 witness: 'x' was registered, then 'y', then 'x' again with other intents,
\* capabilities and priority
C8_Witness ==
    /\ Len(history) = 3
    /\ history[1].name = "x"
    /\ history[2].name = "y"
    /\ history[3].name = "x"
    /\ history[1].intents # history[3].intents
    /\ history[1].capabilities # history[3].capabilities
    /\ history[1].priority # history[3].priority
    /\ Len(registry) = 2
    /\ registry[1] = history[3]
    /\ registry[2] = history[2]

-----------------------------------------------------------------------------
(* Properties of TestingAgent._compare_responses and _run_single_test *)

\* no line of the reply contains one of the five labels
NoLabels(lines) == \A k \in DOMAIN lines : lines[k].label = "other"

IsNumber(tok) == tok \in {"0.9", "0.7", "1.5", "-1", "95"}

ConfidenceLines(lines) == {k \in DOMAIN lines : lines[k].label = "confidence"}

\* the reply gives a confidence, and no confidence it gives is a number
ConfidenceNotANumber(lines) ==
    /\ ConfidenceLines(lines) # {}
    /\ \A k \in ConfidenceLines(lines) : ~IsNumber(lines[k].val)

SaysMatchTrue(lines) == \E k \in DOMAIN lines : lines[k].label = "match" /\ lines[k].val = "true"

Compared == tpc = "Scored" /\ cmp_reply.kind = "reply"

C10_FailuresAreErrors ==
    (/\ tpc = "Scored"
     /\ \/ Ev("raise", KnowledgeName) \in Range(tlog)
        \/ Ev("oracle_raise", "compare") \in Range(tlog))
    => /\ case_outcome = "returned"
       /\ case_result.status = "ERROR"
       /\ "error" \in DOMAIN case_result

-----------------------------------------------------------------------------
(* Properties of RouterAgent._classify_intent and of the replies' metadata *)

\* no registered handler lists any intent
NoIntentListed == \A k \in DOMAIN registry : registry[k].intents = {}

\* C16: when no registered handler lists any intent, process makes no
\* classification-oracle call, takes the message as (general_question,
\* needs_agent = false), starts no handler, and returns a direct reply whose
\* response is non-empty and whose confidence lies between 0 and 1
C16_NoIntentShortCircuit ==
    (NoIntentListed /\ pc # "Received") =>
        /\ Ev("oracle", "classify") \notin Range(log)
        /\ intent = GENERAL_QUESTION
        /\ needs_agent = FALSE
        /\ NumStarted = 0
        /\ pc \in {"DirectReply", "Done"}
        /\ pc = "Done" =>
              /\ outcome = "returned"
              /\ "direct_response" \in DOMAIN reply.metadata
              /\ reply.response # << >>
              /\ reply.metadata.confidence \in 0..100

\* the classification oracle raised or its reply could not be processed
ClassificationFailed == Ev("oracle_raise", "classify") \in Range(log)

\* C17 as stated: when the classification oracle raises or its reply cannot be
\* processed, the request is taken as (general_question, needs_agent = true),
\* nothing is raised, and the request goes on to the handlers of general_question
\* and not to a direct reply
C17_FailureGoesToHandlers ==
    ClassificationFailed =>
        /\ intent = GENERAL_QUESTION
        /\ needs_agent = TRUE
        /\ outcome # "raised"
        /\ pc # "DirectReply"
        /\ pc = "Done" => "direct_response" \notin DOMAIN reply.metadata

\* C17 as amended: when the classification oracle raises or its reply cannot be
\* processed, the request is taken as (general_question, needs_agent = true) and
\* nothing is raised; it is dispatched to the handlers selected among those
\* registered for general_question when there is one, and answered by the
\* no-candidate direct reply, with its note, when there is none
C17_FailureAsksForHandler ==
    ClassificationFailed =>
        /\ intent = GENERAL_QUESTION
        /\ needs_agent = TRUE
        /\ outcome # "raised"
        /\ direct_kind # "no_need"
        /\ IF Len(find_agents_by_intent(registry, GENERAL_QUESTION)) > 0
           THEN /\ pc \in {"Dispatch", "Aggregating", "Done"}
                /\ direct_kind = "none"
                /\ Len(selected_agents) \in 1..2
                /\ \A k \in DOMAIN selected_agents :
                      GENERAL_QUESTION \in
                          registry[NameIndex(registry, selected_agents[k].name)].intents
                /\ pc = "Done" => "direct_response" \notin DOMAIN reply.metadata
           ELSE /\ pc \in {"DirectReply", "Done"}
                /\ direct_kind = "no_candidate"
                /\ NumStarted = 0
                /\ pc = "Done" => "note" \in DOMAIN reply.metadata

\* C17 witness: the classification failed and a handler of general_question was
\* started and answered the request
C17_Witness ==
    /\ ClassificationFailed
    /\ pc = "Done"
    /\ NumStarted = 1
    /\ "intent" \in DOMAIN reply.metadata
    /\ reply.metadata.intent = GENERAL_QUESTION
    /\ reply.metadata.confidence = 90

\* C18: every reply process returns (direct reply, no-candidate fallback,
\* dispatched or aggregated reply, outer error reply) carries processing_time_ms,
\* the time from the start time taken on entry to the reply, never the
\* placeholder 0 of the direct-reply helper
C18_ProcessingTime ==
    /\ pc # "Received" => start_time = 1
    /\ pc = "Done" =>
          /\ "processing_time_ms" \in DOMAIN reply.metadata
          /\ reply.metadata.processing_time_ms = now - start_time
          /\ reply.metadata.processing_time_ms > 0

\* C18 witness: a no-candidate fallback, two awaits after the entry to process
C18_Witness ==
    /\ pc = "Done"
    /\ direct_kind = "no_candidate"
    /\ start_time = 1
    /\ now = 3
    /\ reply.metadata.processing_time_ms = 2

\* the intents listed by at least one registered handler
Served(reg) == UNION {reg[k].intents : k \in DOMAIN reg}

IntentLines(lines) == {k \in DOMAIN lines : lines[k].label = "intent"}

\* the intent the reply names: the text of its last intent: line
NamedIntent(lines) ==
    lines[CHOOSE k \in IntentLines(lines) : \A j \in IntentLines(lines) : j <= k].val

\* C19: when the classification reply has no intent: line, or names an intent
\* that is not served (casual_greeting included), the classified intent is
\* general_question; and the classified intent is always a served intent or
\* general_question
C19_UnknownIntentIsGeneral ==
    /\ Routed => intent \in Served(registry) \cup {GENERAL_QUESTION}
    /\ pc = "Classifying" =>
          \A oc \in ClassifyOutcomes :
              (/\ oc.kind = "reply"
               /\ \/ IntentLines(oc.lines) = {}
                  \/ NamedIntent(oc.lines) \notin Served(registry))
              => ClassifyResult(registry, oc).intent = GENERAL_QUESTION

\* C19 witness: a reply was processed and the request is taken as
\* general_question although no handler lists general_question
C19_Witness ==
    /\ Routed
    /\ Ev("oracle", "classify") \in Range(log)
    /\ ~ClassificationFailed
    /\ intent = GENERAL_QUESTION
    /\ GENERAL_QUESTION \notin Served(registry)
    /\ Served(registry) # {}

-----------------------------------------------------------------------------
(* Properties of AgentRegistry.get_available_intents *)

\* the metadata now registered: the latest call of every name
CurrentHandlers == {LastCall(name) : name \in {n \in RegNames : Registered(n)}}

-----------------------------------------------------------------------------
(* Properties of the pass rule of TestingAgent._run_single_test *)

\* C12: a case outcome that is not ERROR has status PASS exactly when the
\* verdict's match is true and its confidence is strictly greater than 0.7, and
\* FAIL otherwise; the outcome reports the verdict's match and confidence
C12_PassRule ==
    (tpc = "Scored" /\ case_result.status # "ERROR") =>
        /\ case_result.status \in {"PASS", "FAIL"}
        /\ case_result.match = comparison.match
        /\ case_result.confidence = comparison.confidence
        /\ case_result.status = "PASS" <=> (comparison.match /\ comparison.confidence > 70)
        /\ case_result.status = "FAIL" <=> (~comparison.match \/ comparison.confidence <= 70)

\* C12 witness: the judge said 'match: true' with 'confidence: 0.7' exactly, and
\* the case is scored FAIL
C12_Witness ==
    /\ tpc = "Scored"
    /\ cmp_reply.kind = "reply"
    /\ case_result.status = "FAIL"
    /\ case_result.match = TRUE
    /\ case_result.confidence = 70

-----------------------------------------------------------------------------
(* Properties of TestingAgent.process, _find_test_case and _run_all_tests *)

\* the message after trimming, and after trimming and case-folding
Trimmed == strip(message)

Folded == strip(lower(message))

IsRunAll == Folded \in {<<"run_all">>, <<"run all">>}

\* the corpus cases whose question equals the message up to case and surrounding
\* whitespace
Matching == {k \in DOMAIN test_suite : strip(lower(test_suite[k].question)) = Folded}

\* C11: process never raises to its caller: for every message, corpus and outcome
\* of the knowledge handler and of the comparison oracle, a single-case run that
\* ends in ERROR included, it returns a reply with response, agent and metadata
C11_ProcessNeverRaises ==
    /\ toutcome # "raised"
    /\ hpc = "Done" =>
          /\ toutcome = "returned"
          /\ {"response", "agent", "metadata"} \subseteq DOMAIN treply
          /\ treply.agent = HarnessName

StatusesOf(rs) == [k \in DOMAIN rs |-> rs[k].status]

NumWith(rs, status) == Cardinality({k \in DOMAIN rs : rs[k].status = status})

\* C13: after _run_all_tests, total_tests is the corpus length, passed + failed +
\* errors = total_tests, pass_rate is passed / total_tests (in thousandths, rounded
\* down) for a non-empty corpus and 0.0 for the empty one; the outcomes PASS, FAIL,
\* ERROR give total 3, passed 1, failed 1, errors 1 and pass_rate 1/3
C13_SuiteArithmetic ==
    (hpc = "Done" /\ IsRunAll) =>
        /\ toutcome = "returned"
        /\ LET suite_results == treply.metadata
               rs == suite_results.results
           IN /\ rs = results
              /\ suite_results.total_tests = Len(test_suite)
              /\ Len(rs) = Len(test_suite)
              /\ suite_results.passed = NumWith(rs, "PASS")
              /\ suite_results.failed = NumWith(rs, "FAIL")
              /\ suite_results.errors = NumWith(rs, "ERROR")
              /\ suite_results.passed + suite_results.failed + suite_results.errors
                    = suite_results.total_tests
              /\ suite_results.total_tests > 0 =>
                    /\ suite_results.pass_rate * suite_results.total_tests
                          <= suite_results.passed * 1000
                    /\ suite_results.passed * 1000
                          < (suite_results.pass_rate + 1) * suite_results.total_tests
              /\ suite_results.total_tests = 0 => suite_results.pass_rate = 0
              /\ StatusesOf(rs) = <<"PASS", "FAIL", "ERROR">> =>
                    /\ suite_results.total_tests = 3
                    /\ suite_results.passed = 1
                    /\ suite_results.failed = 1
                    /\ suite_results.errors = 1
                    /\ suite_results.pass_rate = 333

\* C13 witness: a run over three cases that ended PASS, FAIL, ERROR in that order
C13_Witness ==
    /\ hpc = "Done"
    /\ IsRunAll
    /\ toutcome = "returned"
    /\ StatusesOf(treply.metadata.results) = <<"PASS", "FAIL", "ERROR">>
    /\ treply.metadata.pass_rate = 333

KnowledgeStarts == Len(SelectSeq(tlog, LAMBDA e : e = Ev("start", KnowledgeName)))

\* C14: for a non-empty message that is not run_all and equals no corpus question
\* up to case and surrounding whitespace, process invokes the knowledge handler
\* once, never calls the comparison oracle, and returns metadata of status
\* CUSTOM_QUERY without match, confidence or verdict; a message equal to a corpus
\* question up to case and surrounding whitespace is run as that test case
C14_CustomQuery ==
    (Trimmed # << >> /\ ~IsRunAll /\ hpc # "Received") =>
        IF Matching = {}
        THEN /\ Ev("oracle", "compare") \notin Range(tlog)
             /\ Ev("case", "t1") \notin Range(tlog)
             /\ hpc = "Done" =>
                   /\ toutcome = "returned"
                   /\ KnowledgeStarts = 1
                   /\ treply.metadata.status = "CUSTOM_QUERY"
                   /\ DOMAIN treply.metadata \cap {"match", "confidence", "comparison"} = {}
        ELSE /\ hpc \in {"Single", "Done"}
             /\ test_case = test_suite[CHOOSE k \in Matching : \A j \in Matching : k <= j]
             /\ tlog[1] = Ev("case", test_case.id)

\* the number of ev events among the first p of the log
CountEv(p, ev) == Cardinality({q \in 1..p : tlog[q].ev = ev})

\* C15: _run_all_tests runs the cases one at a time in corpus order: the k-th
\* case started is corpus case k, a case starts only after the one before it was
\* scored, the knowledge handler is invoked for a case only while that case is the
\* one in flight, and results[i] is the outcome of corpus case i
C15_OneAtATimeInOrder ==
    (IsRunAll /\ hpc \in {"RunAll", "Done"}) =>
        /\ \A p \in DOMAIN tlog :
              /\ CountEv(p, "case") - CountEv(p, "scored") \in {0, 1}
              /\ tlog[p].ev = "case" =>
                    /\ tlog[p].who = test_suite[CountEv(p, "case")].id
                    /\ CountEv(p, "scored") = CountEv(p, "case") - 1
              /\ tlog[p].ev = "scored" => tlog[p].who = test_suite[CountEv(p, "scored")].id
              /\ tlog[p].ev = "start" =>
                    /\ CountEv(p, "start") = CountEv(p, "case")
                    /\ CountEv(p, "scored") = CountEv(p, "case") - 1
        /\ Len(results) = CountEv(Len(tlog), "scored")
        /\ \A i \in DOMAIN results :
              /\ results[i].test_id = test_suite[i].id
              /\ results[i].question = test_suite[i].question
        /\ hpc = "Done" => Len(results) = Len(test_suite)

\* C15 witness: a run over three cases, the knowledge handler invoked for each,
\* finished with the three outcomes in corpus order
C15_Witness ==
    /\ IsRunAll
    /\ hpc = "Done"
    /\ KnowledgeStarts = 3
    /\ [i \in DOMAIN results |-> results[i].test_id] = <<"t1", "t2", "t3">>

-----------------------------------------------------------------------------
(* Properties of AgentRegistry.find_agents_by_intent *)

\* the first register call made under a name
FirstCallIndex(name) ==
    CHOOSE k \in DOMAIN history :
        /\ history[k].name = name
        /\ \A j \in DOMAIN history : history[j].name = name => k <= j

\* C21: find_agents_by_intent returns the registered handlers whose current
\* metadata lists the intent, each once, in the order in which the handlers were
\* (first) registered, whatever their priorities
C21_LookupOrder ==
    \A i \in IntentType :
        LET found == find_agents_by_intent(registry, i)
        IN /\ Range(found) = {h \in CurrentHandlers : i \in h.intents}
           /\ \A a, b \in DOMAIN found : found[a].name = found[b].name => a = b
           /\ \A a, b \in DOMAIN found :
                 a < b => FirstCallIndex(found[a].name) < FirstCallIndex(found[b].name)

\* C21 witness: 'y' (priority 0) was registered before 'x' (priority 5), then 'y'
\* was registered again: the lookup lists the current 'y' before 'x'
C21_Witness ==
    /\ Len(history) = 3
    /\ history[1].name = "y"
    /\ history[2].name = "x"
    /\ history[3].name = "y"
    /\ history[1].intents = {}
    /\ history[2].intents = {"general_question"}
    /\ history[3].intents = {"general_question"}
    /\ history[2].priority = 5
    /\ history[3].priority = 0
    /\ find_agents_by_intent(registry, "general_question") = <<history[3], history[2]>>

-----------------------------------------------------------------------------
(* Properties of the direct reply and of the aggregation *)

DirectAsked == Ev("oracle", "direct") \in Range(log)

DirectRaised == Ev("oracle_raise", "direct") \in Range(log)

\* C22: when the direct-reply oracle call raises, the reply is returned (nothing is
\* raised), its response is the fixed greeting, and metadata.confidence is present
\* and is 0.5, lower than the 0.8 of a direct reply whose oracle call returned
C22_DirectOracleRaises ==
    (pc = "Done" /\ DirectAsked) =>
        /\ outcome = "returned"
        /\ "confidence" \in DOMAIN reply.metadata
        /\ IF DirectRaised
           THEN /\ reply.response = <<"Hello! How can I help you today?">>
                /\ reply.metadata.confidence = 50
                /\ reply.metadata.confidence < 80
           ELSE reply.metadata.confidence = 80

\* C22 witness: a request whose direct-reply oracle call raised has been answered
C22_Witness ==
    /\ pc = "Done"
    /\ DirectRaised
    /\ outcome = "returned"
    /\ reply.metadata.confidence = 50

AggregationAsked == Ev("oracle", "aggregate") \in Range(log)

\* C23: when exactly one handler was dispatched, the reply's response is that
\* handler's response text, or the synthetic error text if it raised, and the
\* aggregation oracle is never called
C23_SingleResultPassesThrough ==
    Len(selected_agents) = 1 =>
        /\ ~AggregationAsked
        /\ pc # "Aggregating"
        /\ (pc = "Done" /\ tasks[1] = "ok") =>
              /\ outcome = "returned"
              /\ reply.response = <<"answer of", selected_agents[1].name>>
        /\ (pc = "Done" /\ tasks[1] = "raise") =>
              /\ outcome = "returned"
              /\ reply.response = <<"Error from", selected_agents[1].name, ErrMsg>>

\* C23 witness: the only dispatched handler raised and the request was answered
C23_Witness ==
    /\ pc = "Done"
    /\ Len(selected_agents) = 1
    /\ tasks[1] = "raise"
    /\ reply.response = <<"Error from", selected_agents[1].name, ErrMsg>>

AggregationRaised == Ev("oracle_raise", "aggregate") \in Range(log)

\* the response text of the k-th dispatched handler's result: what it returned, the
\* synthetic error text if it raised, the empty text if its result has none
RawText(k) ==
    IF tasks[k] = "ok" THEN <<"answer of", selected_agents[k].name>>
    ELSE IF tasks[k] = "raise" THEN <<"Error from", selected_agents[k].name, ErrMsg>>
    ELSE << >>

\* C24: when two handlers were dispatched and the aggregation oracle call raises,
\* the reply's response is the two raw response texts joined by the separator in
\* selection order, and nothing is raised, whatever the two results are (returned
\* texts, synthetic error results, results without a response text)
C24_AggregationFallback ==
    (pc = "Done" /\ AggregationRaised) =>
        /\ Len(selected_agents) = 2
        /\ outcome = "returned"
        /\ Ev("caught", "process") \notin Range(log)
        /\ reply.response = RawText(1) \o <<"/">> \o RawText(2)

\* C24 witness: the first handler returned no response text, the second raised, and
\* the aggregation oracle call raised
C24_Witness ==
    /\ pc = "Done"
    /\ AggregationRaised
    /\ tasks = <<"noresp", "raise">>
    /\ reply.response = <<"/", "Error from", selected_agents[2].name, ErrMsg>>

-----------------------------------------------------------------------------
(* Properties of the dispatch *)

DispatchedReply == pc = "Done" /\ "selected_agents" \in DOMAIN reply.metadata

\* C25: in a dispatched reply, metadata.agent_responses is as long as
\* metadata.selected_agents and names the same handler at every position,
\* whichever handler finished first and whether each one returned or raised
C25_AttributionInSelectionOrder ==
    DispatchedReply =>
        /\ Len(reply.metadata.agent_responses) = Len(reply.metadata.selected_agents)
        /\ Len(reply.metadata.selected_agents) = Len(selected_agents)
        /\ \A i \in DOMAIN selected_agents :
              /\ reply.metadata.selected_agents[i] = selected_agents[i].name
              /\ reply.metadata.agent_responses[i] = selected_agents[i].name

\* the second handler finished before the first
SecondFinishedFirst ==
    \E i, j \in DOMAIN log :
        /\ i < j
        /\ log[i].ev \in {"finish", "raise"}
        /\ log[j].ev \in {"finish", "raise"}
        /\ log[i].who = selected_agents[2].name
        /\ log[j].who = selected_agents[1].name

\* C25 witness: of two dispatched handlers the second raised first, the first then
\* returned, and the reply names them in selection order
C25_Witness ==
    /\ DispatchedReply
    /\ Len(selected_agents) = 2
    /\ tasks = <<"ok", "raise">>
    /\ SecondFinishedFirst
    /\ reply.metadata.agent_responses = <<selected_agents[1].name, selected_agents[2].name>>

\* the positions of the log at which a handler's process ended
Ended == {i \in DOMAIN log : log[i].ev \in {"finish", "raise"}}

\* C26: within one request the stages never overlap: no handler is started while
\* the classification is pending, and the aggregation and the reply come only
\* after every dispatched handler task has returned or raised, so that a fast
\* handler's result or one handler's exception never brings an early reply
C26_StagesNeverOverlap ==
    /\ pc \in {"Received", "Classifying", "DirectReply"} =>
          /\ NumStarted = 0
          /\ \A k \in DOMAIN tasks : tasks[k] = "pending"
    /\ (pc \in {"Aggregating", "Done"} \/ outcome # "pending") =>
          /\ \A k \in DOMAIN tasks : tasks[k] \in HandlerOutcomes
          /\ Cardinality(Ended) = Len(tasks)
    /\ \A i, j \in DOMAIN log :
          /\ (log[i] = Ev("oracle", "classify") /\ log[j].ev = "start") => i < j
          /\ (log[i].ev \in {"start", "finish", "raise"}
                /\ log[j] \in {Ev("oracle", "aggregate"), Ev("caught", "process")}) => i < j
    /\ (pc = "Dispatch" /\ \E k \in DOMAIN tasks : tasks[k] \in {"pending", "running"}) =>
          /\ outcome = "pending"
          /\ reply = NoReply
          /\ ~AggregationAsked

\* C26 witness: the second of two handlers has raised while the first is still
\* running, and the request has neither aggregated nor replied
C26_Witness ==
    /\ pc = "Dispatch"
    /\ tasks = <<"running", "raise">>
    /\ outcome = "pending"
    /\ ~AggregationAsked

-----------------------------------------------------------------------------
(* Properties of the direct path *)

\* C27: when the classification yields needs_agent = false, no handler's process is
\* invoked for the request, the registry is not asked for candidates, and the reply
\* is the orchestrator's own (agent = router_agent, metadata.direct_response =
\* true), whatever intent was classified
C27_NoHandlerNeeded ==
    (Routed /\ ~needs_agent) =>
        /\ NumStarted = 0
        /\ Events("lookup") = << >>
        /\ selected_agents = << >>
        /\ pc \in {"DirectReply", "Done"}
        /\ DirectAsked
        /\ pc = "Done" =>
              /\ outcome = "returned"
              /\ reply.agent = RouterName
              /\ "direct_response" \in DOMAIN reply.metadata
              /\ reply.metadata.direct_response = TRUE

\* C27 witness: the classified intent has a registered handler, no handler was asked
\* for, and the orchestrator has answered
C27_Witness ==
    /\ pc = "Done"
    /\ Ev("oracle", "classify") \in Range(log)
    /\ ~needs_agent
    /\ Len(Candidates) > 0
    /\ NumStarted = 0
    /\ reply.agent = RouterName
    /\ reply.metadata.direct_response = TRUE

-----------------------------------------------------------------------------
(* Termination of RouterAgent.process *)

\* a request dispatches two handlers at most: registries of up to two handlers
\* show every path of process
LiveRegistries == {reg \in RouterRegistries : Len(reg) <= 2}

InitLive ==
    /\ registry \in LiveRegistries
    /\ history = << >>
    /\ pc = "Received"
    /\ RouterIdle
    /\ TestIdle

\* every oracle call and every handler call that was made eventually returns or
\* raises, and the event loop runs whatever is ready: some step of the request is
\* taken as long as one is possible
SpecLive == InitLive /\ [][Next]_vars /\ WF_vars(Next)

Unfinished == \E k \in DOMAIN tasks : tasks[k] \in {"pending", "running"}

\* C28: if every oracle call and every dispatched handler call eventually returns
\* or raises, process eventually reaches its terminal state and returns one reply,
\* which is never replaced; and as long as a dispatched handler call has not
\* completed there is no reply, whether or not its sibling has finished (nothing
\* times out, nothing is cancelled)
C28_EventuallyOneReply ==
    /\ <>(pc = "Done" /\ outcome = "returned")
    /\ [](Unfinished => (outcome = "pending" /\ reply = NoReply /\ pc = "Dispatch"))
    /\ [][outcome # "pending" => (outcome' = outcome /\ reply' = reply /\ pc' = pc)]_vars

\* C28 witness: the request has replied after one of its two handlers had finished
\* while the other was still running
C28_Witness ==
    /\ pc = "Done"
    /\ outcome = "returned"
    /\ Len(tasks) = 2
    /\ SecondFinishedFirst

-----------------------------------------------------------------------------
(* Properties of TestingAgent._run_single_test *)

\* the registry has no entry named knowledge_agent, or that entry has no instance
NoLiveKnowledge ==
    \A i \in DOMAIN registry :
        registry[i].name = KnowledgeName => registry[i].agent_instance = NoInstance

\* C29: when the registry has no 'knowledge_agent' entry, or the entry has no live
\* instance, _run_single_test returns a case outcome without raising, no handler
\* is invoked, and the outcome's actual response is the 'Knowledge agent not
\* available' placeholder
C29_KnowledgeUnavailable ==
    NoLiveKnowledge =>
        /\ \A i \in DOMAIN tlog : tlog[i].ev \notin {"start", "finish", "raise"}
        /\ tpc # "Dispatch"
        /\ tpc = "Scored" =>
              /\ case_outcome = "returned"
              /\ case_result.status \in {"PASS", "FAIL"}
              /\ case_result.actual_response = <<"Knowledge agent not available">>

\* C29 witness: the knowledge entry has no instance and the case was scored on the
\* placeholder
C29_Witness ==
    /\ \E i \in DOMAIN registry : registry[i].name = KnowledgeName
    /\ NoLiveKnowledge
    /\ tpc = "Scored"
    /\ case_outcome = "returned"
    /\ case_result.actual_response = <<"Knowledge agent not available">>

StageRank(stage) ==
    IF stage = "Start" THEN 0
    ELSE IF stage = "Dispatch" THEN 1
    ELSE IF stage = "Compare" THEN 2
    ELSE 3

\* how many times the event occurs in the log of the run
Occurrences(l, e) == Cardinality({i \in DOMAIN l : l[i] = e})

\* C30: one run of _run_single_test goes through Dispatch, Compare and Scored in
\* that order and in one pass: every step moves to a later stage, Scored is
\* terminal and is entered with the one outcome of the run, the knowledge handler
\* is invoked at most once and the comparison oracle at most once, and neither is
\* invoked again after a failure or a FAIL verdict
C30_OnePassNoRetry ==
    [][/\ tpc' # tpc => StageRank(tpc') > StageRank(tpc)
       /\ tpc = "Scored" =>
             (tpc' = "Scored" /\ case_result' = case_result /\ tlog' = tlog)
       /\ (tpc # "Scored" /\ tpc' = "Scored") =>
             (case_outcome = "pending" /\ case_outcome' = "returned")
       /\ Occurrences(tlog', Ev("start", KnowledgeName)) <= 1
       /\ Occurrences(tlog', Ev("oracle", "compare")) <= 1
       /\ \A i, j \in DOMAIN tlog' :
             (tlog'[i] = Ev("oracle", "compare") /\ tlog'[j] = Ev("start", KnowledgeName))
                => j < i]_vars

\* C30 witness: the handler raised, the comparison gave a FAIL verdict, and the run
\* ended with one handler call and one comparison call
C30_Witness ==
    /\ tpc = "Scored"
    /\ case_result.status = "FAIL"
    /\ Ev("raise", KnowledgeName) \in Range(tlog)
    /\ Occurrences(tlog, Ev("start", KnowledgeName)) = 1
    /\ Occurrences(tlog, Ev("oracle", "compare")) = 1

-----------------------------------------------------------------------------
(* Startup: routers/agent_router.py builds the RouterAgent when it is imported, *)
(* then main.startup builds the three handlers, each constructor calling        *)
(* BaseAgent.__init__ first and building its own clients after it               *)

MaxServed == 3

StartupHandlers == {"support_agent", "knowledge_agent", "testing_agent"}

\* the arguments each constructor passes to BaseAgent.__init__
HandlerIntents(name) ==
    IF name = "support_agent" THEN {"customer_support"}
    ELSE IF name = "knowledge_agent" THEN {"product_info", "general_question"}
    ELSE IF name = "testing_agent" THEN {"system_testing"}
    ELSE {}

HandlerCapabilities(name) ==
    IF name = "support_agent"
    THEN {"account_status", "transaction_history", "support_tickets", "service_status"}
    ELSE IF name = "knowledge_agent" THEN {"rag_retrieval", "product_info", "web_search"}
    ELSE IF name = "testing_agent" THEN {"test_execution", "response_validation", "comparison"}
    ELSE {"routing", "intent_classification"}

HandlerPriority(name) ==
    IF name = "support_agent" THEN 5
    ELSE IF name = "knowledge_agent" THEN 3
    ELSE IF name = "testing_agent" THEN 1
    ELSE 0

\* faulty variant: the metadata is built without the reference to the new object
MetadataWithoutInstance(name, id) ==
    AgentMetadata(name, HandlerIntents(name), HandlerCapabilities(name),
                  HandlerPriority(name), NoInstance)

\* self.metadata = AgentMetadata(..., agent_instance=self)
SelfMetadata(name, id) ==
    AgentMetadata(name, HandlerIntents(name), HandlerCapabilities(name),
                  HandlerPriority(name), Instance(name, id))

startupFrame == <<pc, now, start_time, intent, needs_agent, direct_kind, selected_agents,
                  tasks, agent_responses, reply, outcome, testVars>>

\* the module-level RouterAgent() has run
InitStartup ==
    /\ registry = register(<< >>, SelfMetadata(RouterName, 1))
    /\ history = <<SelfMetadata(RouterName, 1)>>
    /\ pc = "Idle"
    /\ RouterIdle
    /\ TestIdle

\* BaseAgent.__init__ ran for the handler; its constructor has not returned yet
Building(name) ==
    /\ Ev("init", name) \in Range(log)
    /\ Ev("built", name) \notin Range(log)
    /\ Ev("init_raise", name) \notin Range(log)

StartupAborted == \E name \in StartupHandlers : Ev("init_raise", name) \in Range(log)

StartupComplete == \A name \in StartupHandlers : Ev("built", name) \in Range(log)

\* a constructor is entered and runs super().__init__: the metadata is built
\* around the new object and registered
BaseAgentInit(name) ==
    /\ ~StartupAborted
    /\ \A other \in StartupHandlers : ~Building(other)
    /\ Ev("init", name) \notin Range(log)
    /\ LET metadata == SelfMetadata(name, Len(history) + 1)
       IN /\ registry' = register(registry, metadata)
          /\ history' = Append(history, metadata)
    /\ log' = Append(log, Ev("init", name))
    /\ UNCHANGED startupFrame

\* the rest of the constructor (the oracle client, the tools, the corpus) returns
\* or raises; a raise ends startup
ConstructorReturn(name, oc) ==
    /\ Building(name)
    /\ log' = Append(log, Ev(IF oc = "ok" THEN "built" ELSE "init_raise", name))
    /\ UNCHANGED <<registry, history, startupFrame>>

\* after startup a request reaches a handler through the instance its entry holds
Serve(name) ==
    /\ StartupComplete
    /\ Len(Events("process")) < MaxServed
    /\ Len(get_agent(registry, name)) = 1
    /\ get_agent(registry, name)[1].agent_instance # NoInstance
    /\ log' = Append(log, Ev("process", get_agent(registry, name)[1].agent_instance.name))
    /\ UNCHANGED <<registry, history, startupFrame>>

NextStartup ==
    \/ \E name \in StartupHandlers : BaseAgentInit(name)
    \/ \E name \in StartupHandlers, oc \in {"ok", "raise"} : ConstructorReturn(name, oc)
    \/ \E name \in StartupHandlers : Serve(name)

SpecStartup == InitStartup /\ [][NextStartup]_vars

\* the metadata without the identity of the object it refers to
Described(metadata) ==
    [name |-> metadata.name, intents |-> metadata.intents,
     capabilities |-> metadata.capabilities, priority |-> metadata.priority,
     instance_name |-> metadata.agent_instance.name]

\* C31: constructing a handler registers its metadata, with a reference to the new
\* instance, under its name once and while the constructor runs, hence before any
\* process call on it; after startup the registry holds one entry per handler name
\* with the same metadata, whatever the order in which the handlers were built
C31_SelfRegistration ==
    /\ \A name \in StartupHandlers :
          /\ Cardinality({k \in DOMAIN history : history[k].name = name}) <= 1
          /\ Ev("init", name) \in Range(log) =>
                /\ Cardinality({k \in DOMAIN history : history[k].name = name}) = 1
                /\ get_agent(registry, name) = <<LastCall(name)>>
                /\ LastCall(name).agent_instance =
                      Instance(name, CHOOSE k \in DOMAIN history : history[k].name = name)
          /\ \A j \in DOMAIN log :
                log[j] = Ev("process", name) =>
                    \E i \in 1..(j - 1) : log[i] = Ev("init", name)
    /\ StartupComplete =>
          /\ {registry[k].name : k \in DOMAIN registry} = StartupHandlers \cup {RouterName}
          /\ \A i, j \in DOMAIN registry : registry[i].name = registry[j].name => i = j
          /\ \A k \in DOMAIN registry :
                Described(registry[k]) =
                    [name |-> registry[k].name, intents |-> HandlerIntents(registry[k].name),
                     capabilities |-> HandlerCapabilities(registry[k].name),
                     priority |-> HandlerPriority(registry[k].name),
                     instance_name |-> registry[k].name]

\* C31 witness: the handlers were built in the order testing, knowledge, support,
\* and a request then reached the support handler
C31_Witness ==
    /\ StartupComplete
    /\ [k \in DOMAIN history |-> history[k].name] =
          <<RouterName, "testing_agent", "knowledge_agent", "support_agent">>
    /\ Ev("process", "support_agent") \in Range(log)

-----------------------------------------------------------------------------
(* Properties of the verdict *)

\* C32: every verdict produced by _compare_responses has a confidence within
\* [0,1] (0..100 hundredths), whatever number the oracle wrote on its confidence
\* line
C32_ConfidenceWithinUnit ==
    (tpc = "Scored" /\ cmp_reply.kind # "none") =>
        /\ comparison.confidence >= 0
        /\ comparison.confidence <= 100

-----------------------------------------------------------------------------
(* The registry's lookups, called from outside a request (routers/agent_router.py) *)
(* or from a handler, and what each call leaves in the map                         *)

\* [agent for agent in self._agents.values() if capability in agent.capabilities]
find_agents_by_capability(reg, capability) ==
    SelectSeq(reg, LAMBDA agent : capability \in agent.capabilities)

\* list(self._agents.values())
get_all_agents(reg) == reg

\* max(candidates, key=lambda a: a.priority): the first of the maximal ones; None
\* (the empty sequence here) when there is no candidate
select_best_agent(reg, i) ==
    LET candidates == find_agents_by_intent(reg, i)
    IN IF Len(candidates) = 0 THEN << >>
       ELSE LET best == CHOOSE k \in DOMAIN candidates :
                            /\ \A j \in DOMAIN candidates :
                                  candidates[j].priority <= candidates[k].priority
                            /\ \A j \in 1..(k - 1) :
                                  candidates[j].priority < candidates[k].priority
            IN <<candidates[best]>>

ReadNames == {"knowledge_agent", "support_agent", "nobody"}

ReadCapabilities == {"rag_retrieval", "routing"}

Lookups ==
    [op : {"get_agent"}, arg : ReadNames]
    \cup [op : {"find_agents_by_intent", "select_best_agent"}, arg : IntentType]
    \cup [op : {"find_agents_by_capability"}, arg : ReadCapabilities]
    \cup [op : {"get_all_agents", "get_available_intents"}, arg : {""}]

LookupResult(reg, l) ==
    IF l.op = "get_agent" THEN get_agent(reg, l.arg)
    ELSE IF l.op = "find_agents_by_intent" THEN find_agents_by_intent(reg, l.arg)
    ELSE IF l.op = "select_best_agent" THEN select_best_agent(reg, l.arg)
    ELSE IF l.op = "find_agents_by_capability" THEN find_agents_by_capability(reg, l.arg)
    ELSE IF l.op = "get_all_agents" THEN get_all_agents(reg)
    ELSE get_available_intents(reg)

\* faulty variant: select_best_agent sorts the stored entries in place
CallSortingInPlace(reg, l) ==
    [agents |-> IF l.op = "select_best_agent" THEN SortedByPriorityDesc(reg) ELSE reg,
     result |-> LookupResult(reg, l)]

\* one lookup: self._agents after the call, and the value returned; every lookup
\* builds a new list or dict and assigns nothing to self._agents
Call(reg, l) == [agents |-> reg, result |-> LookupResult(reg, l)]

\* no request is being served and no test is running
Quiet == pc = "Idle" /\ tpc = "Idle" /\ hpc = "Idle"

RegistryRead(l) ==
    /\ Quiet
    /\ registry' = Call(registry, l).agents
    /\ last_read' = [op |-> l.op, arg |-> l.arg, result |-> Call(registry, l).result]
    /\ UNCHANGED <<history, routerVars, tpc, tlog, caseLocals, harnessVars, handlerVars>>

StartupStep == Quiet /\ NextStartup

\* the process is at startup (with lookups coming from outside), or serves one
\* request to the router, or serves one request to the testing handler
InitServing == InitStartup \/ InitLive \/ InitHarness

NextServing ==
    \/ StartupStep
    \/ \E l \in Lookups : RegistryRead(l)
    \/ Next
    \/ NextHarness

SpecServing == InitServing /\ [][NextServing]_vars

\* C33: the registry's lookups leave the registry's map unchanged, and no step of
\* RouterAgent.process or of TestingAgent.process writes to it:
\* the map changes only when a handler is constructed, by the registration of
\* that handler's metadata
C33_RegistryFrame ==
    [][/\ (last_read'.op # last_read.op \/ last_read'.arg # last_read.arg) =>
             registry' = registry
       /\ (pc' # pc \/ tpc' # tpc \/ hpc' # hpc \/ log' # log \/ tlog' # tlog) =>
             (registry' # registry => history' # history)
       /\ registry' # registry =>
             \E name \in StartupHandlers :
                /\ history' = Append(history, SelfMetadata(name, Len(history) + 1))
                /\ registry' = register(registry, SelfMetadata(name, Len(history) + 1))
                /\ log' = Append(log, Ev("init", name))]_vars

\* C33 witness: after startup select_best_agent found the knowledge handler and the
\* map still holds the four entries in registration order
C33_Witness ==
    /\ StartupComplete
    /\ last_read.op = "select_best_agent"
    /\ last_read.arg = "general_question"
    /\ Len(last_read.result) = 1
    /\ [k \in DOMAIN registry |-> registry[k].name] = [k \in DOMAIN history |-> history[k].name]
    /\ Len(registry) = 4

-----------------------------------------------------------------------------
(* Registration and lookups under the event loop: every method of the registry *)
(* is a plain function without an await, so a call that has started runs to    *)
(* its end before any other coroutine is resumed                               *)

MaxConcurrentRegs == 2

Requests == {"request1", "request2"}

\* faulty variant: calls are preempted, as threads would be
CanStepPreemptive(t, current) == TRUE

\* who may take the next step when `current` is inside a registry call
CanStep(t, current) == current \in {"none", t}

NoCall == [op |-> "none", arg |-> "", result |-> << >>, running |-> FALSE, task |-> "none"]

Current == IF last_read.op # "none" /\ last_read.running THEN last_read.task ELSE "none"

\* the iteration-based lookups and their arguments
IterationLookups ==
    [op : {"find_agents_by_intent"}, arg : {"general_question", "product_info"}]
    \cup [op : {"find_agents_by_capability"}, arg : {"rag_retrieval"}]
    \cup [op : {"get_available_intents"}, arg : {""}]

\* the map after the first n register calls
RECURSIVE SnapshotAfter(_)
SnapshotAfter(n) == IF n = 0 THEN << >> ELSE register(SnapshotAfter(n - 1), history[n])

InitConcurrent ==
    /\ registry = << >>
    /\ history = << >>
    /\ pc = "Idle"
    /\ now = 1
    /\ start_time = 0
    /\ intent = "none"
    /\ needs_agent = FALSE
    /\ direct_kind = "none"
    /\ selected_agents = << >>
    /\ tasks = [t \in Requests |-> "Received"]
    /\ agent_responses = << >>
    /\ reply = NoReply
    /\ outcome = "pending"
    /\ log = << >>
    /\ tpc = "Idle"
    /\ test_case = NoCase
    /\ agent_result = NoResult
    /\ cmp_reply = NoCompare
    /\ comparison = VerdictDefault
    /\ case_result = NoOutcome
    /\ case_outcome = "pending"
    /\ tlog = << >>
    /\ HarnessIdle
    /\ last_read = NoCall
    /\ HandlersIdle

concurrentFrame == <<pc, now, start_time, intent, needs_agent, direct_kind, selected_agents,
                     agent_responses, reply, outcome, log, tpc, tlog, caseLocals, harnessVars,
                     handlerVars>>

\* a constructor registers its metadata: one dict assignment
RegisterCall(name, intents, capabilities) ==
    /\ Len(history) < MaxConcurrentRegs
    /\ CanStep("constructor", Current)
    /\ LET metadata == AgentMetadata(name, intents, capabilities, 0,
                                     Instance(name, Len(history) + 1))
       IN /\ registry' = register(registry, metadata)
          /\ history' = Append(history, metadata)
    /\ UNCHANGED <<tasks, last_read, concurrentFrame>>

\* a request enters a lookup: get_available_intents in _classify_intent (line 40),
\* find_agents_by_intent in process (line 250)
StartLookup(t, l) ==
    /\ Current = "none"
    /\ CanStep(t, Current)
    /\ \/ tasks[t] = "Received" /\ l.op = "get_available_intents"
       \/ tasks[t] = "Routing" /\ l.op # "get_available_intents"
    /\ last_read' = [op |-> l.op, arg |-> l.arg, result |-> << >>, running |-> TRUE,
                     task |-> t, cursor |-> 1, seen |-> << >>, before |-> registry,
                     calls_before |-> Len(history), calls_after |-> Len(history),
                     raised |-> FALSE]
    /\ UNCHANGED <<registry, history, tasks, concurrentFrame>>

\* one round of `for agent in self._agents.values()`: a dict whose size changed
\* since the loop began raises RuntimeError, otherwise the next value is visited
IterateLookup ==
    /\ last_read.op # "none"
    /\ last_read.running
    /\ CanStep(last_read.task, Current)
    /\ IF Len(registry) # Len(last_read.before)
       THEN /\ last_read' = [last_read EXCEPT !.running = FALSE, !.raised = TRUE,
                                              !.calls_after = Len(history)]
            /\ tasks' = [tasks EXCEPT ![last_read.task] = "Failed"]
       ELSE IF last_read.cursor <= Len(registry)
       THEN /\ last_read' = [last_read EXCEPT
                                !.seen = Append(@, registry[last_read.cursor]),
                                !.cursor = @ + 1]
            /\ UNCHANGED tasks
       ELSE /\ last_read' = [last_read EXCEPT
                                !.running = FALSE,
                                !.calls_after = Len(history),
                                !.result = LookupResult(last_read.seen,
                                                        [op |-> last_read.op,
                                                         arg |-> last_read.arg])]
            /\ tasks' = [tasks EXCEPT ![last_read.task] =
                            IF last_read.op = "get_available_intents"
                            THEN "Classifying" ELSE "Routed"]
    /\ UNCHANGED <<registry, history, concurrentFrame>>

\* the classification oracle answered: the request is resumed
OracleReturn(t) ==
    /\ tasks[t] = "Classifying"
    /\ CanStep(t, Current)
    /\ tasks' = [tasks EXCEPT ![t] = "Routing"]
    /\ UNCHANGED <<registry, history, last_read, concurrentFrame>>

NextConcurrent ==
    \/ \E name \in RegNames, intents \in RegIntents, capabilities \in RegCapabilities :
          RegisterCall(name, intents, capabilities)
    \/ \E t \in Requests, l \in IterationLookups : StartLookup(t, l)
    \/ IterateLookup
    \/ \E t \in Requests : OracleReturn(t)

SpecConcurrent == InitConcurrent /\ [][NextConcurrent]_vars

\* C34: a register call never runs inside an iteration-based lookup, or inside
\* another register call: while a lookup iterates the map does not change, the
\* lookup does not fail, and what it returns is the lookup's value on the map as
\* it was wholly before or wholly after each registration; a lookup never waits
\* for another request's lookup, only for the call that is running
C34_RegisterExcludesLookups ==
    /\ last_read.op # "none" =>
          /\ ~last_read.raised
          /\ last_read.running =>
                /\ registry = last_read.before
                /\ Len(history) = last_read.calls_before
          /\ ~last_read.running =>
                /\ last_read.calls_after = last_read.calls_before
                /\ last_read.result =
                      LookupResult(SnapshotAfter(last_read.calls_before),
                                   [op |-> last_read.op, arg |-> last_read.arg])
    /\ registry = SnapshotAfter(Len(history))
    /\ \A t \in Requests :
          (Current = "none" /\ tasks[t] \in {"Received", "Routing"}) =>
              \A l \in IterationLookups :
                  (l.op = "get_available_intents") = (tasks[t] = "Received") =>
                      ENABLED StartLookup(t, l)

\* C34 witness: request 2 got its candidates while request 1 was waiting for the
\* classification oracle, after two registrations, one of them made between the
\* two lookups of request 2
C34_Witness ==
    /\ tasks["request1"] = "Classifying"
    /\ tasks["request2"] = "Routed"
    /\ last_read.op = "find_agents_by_intent"
    /\ ~last_read.running
    /\ last_read.task = "request2"
    /\ last_read.calls_before = 2
    /\ Len(last_read.result) = 2

-----------------------------------------------------------------------------
(* Properties of the dispatch, continued *)

\* C35: with two handlers dispatched, one whose process returned a value that is no
\* result mapping is isolated like one that raised: the sibling's own result
\* reaches aggregation and the reply is the dispatched reply, not the outer error
\* reply
C35_NonMappingIsolated ==
    \A k \in 1..2 :
        (/\ pc = "Done"
         /\ Len(tasks) = 2
         /\ tasks[k] = "nonmap"
         /\ tasks[3 - k] = "ok")
        => /\ Len(agent_responses) = 2
           /\ agent_responses[3 - k].response = <<"answer of", selected_agents[3 - k].name>>
           /\ Len(Events("caught")) = 0
           /\ outcome = "returned"
           /\ "selected_agents" \in DOMAIN reply.metadata

-----------------------------------------------------------------------------
(* Properties of the selection, continued *)

\* the positions, in lookup order, of the candidates of maximum priority
TopPositions == {k \in DOMAIN Candidates : Candidates[k].priority = MaxPriority(Candidates)}

FirstOf(positions) == CHOOSE k \in positions : \A j \in positions : k <= j

\* C36: the selection is a function of the registry: the primary is the first
\* candidate of maximum priority in lookup order; on a tie the secondary is the
\* next candidate of maximum priority in that order; the selected list has the
\* primary first, and candidates tied at the top after the second are dropped
C36_StableSelection ==
    (Routed /\ needs_agent /\ Len(Candidates) > 1) =>
        LET first == FirstOf(TopPositions)
            rest == TopPositions \ {first}
        IN /\ selected_agents[1] = Candidates[first].agent_instance
           /\ IF rest = {}
              THEN Len(selected_agents) = 1
              ELSE /\ Len(selected_agents) = 2
                   /\ selected_agents[2] = Candidates[FirstOf(rest)].agent_instance
                   /\ \A k \in rest \ {FirstOf(rest)} :
                         Candidates[k].agent_instance \notin Range(selected_agents)

\* C36 witness: three candidates tie at the top and the first two in lookup order
\* were selected, in that order
C36_Witness ==
    /\ pc = "Dispatch"
    /\ needs_agent
    /\ PrioritiesOf(Candidates) = <<5, 5, 5>>
    /\ selected_agents = <<Candidates[1].agent_instance, Candidates[2].agent_instance>>

-----------------------------------------------------------------------------
(* Properties of the verdict, continued *)

\* the reply with every label written in lower case
LowercaseLabels(oc) ==
    [oc EXCEPT !.lines = [k \in DOMAIN oc.lines |-> [oc.lines[k] EXCEPT !.lower = TRUE]]]

\* C37: verdict parsing does not depend on label capitalisation: a reply yields
\* the same verdict (match, confidence, differences, similarities, reason) as
\* the same reply with lowercase labels, so no field parsed from an earlier line
\* is discarded because of a later line
C37_LabelCaseIrrelevant ==
    Compared => comparison = _compare_responses(LowercaseLabels(cmp_reply)).result

-----------------------------------------------------------------------------
(* SupportAgent.process (support.py lines 83-207), one action per await *)

max_iterations == 5

SupportName == "support_agent"

KnownTool == "check_account_status"

\* response.tool_calls: the names asked for, in order; "" is a call without a name
ToolCallLists == {<< >>, <<KnownTool>>, <<"">>, <<KnownTool, "">>}

\* llm_with_tools.ainvoke raised, or answered a message with its content and its
\* tool calls
SupportOutcomes ==
    {[kind |-> "raise", content |-> "", calls |-> << >>],
     [kind |-> "reply", content |-> "answer", calls |-> << >>],
     [kind |-> "reply", content |-> "", calls |-> << >>]}
    \cup {[kind |-> "reply", content |-> "let me check", calls |-> c] :
             c \in ToolCallLists \ {<< >>}}

\* the tool behind _execute_tool returned or raised
ToolOutcomes == {"ok", "raise"}

UserIds == {"", "u1"}

Msg(type, content) == [type |-> type, content |-> content]

\* _execute_tool (lines 52-81): the text it returns; it never raises
_execute_tool(tool_name, oc) ==
    IF tool_name # KnownTool THEN "Error: Tool not found"
    ELSE IF oc = "ok" THEN "account data"
    ELSE "Error executing tool"

\* the inner loop's `continue` for calls without a name (lines 139-141)
RECURSIVE SkipNameless(_)
SkipNameless(calls) ==
    IF calls = << >> THEN << >>
    ELSE IF Head(calls) = "" THEN SkipNameless(Tail(calls))
    ELSE calls

\* lines 168-188: the mapping returned after the loop
SupportResult(msgs, used) ==
    [response |-> IF msgs # << >> THEN msgs[Len(msgs)].content
                  ELSE "I couldn't process your request.",
     agent |-> SupportName,
     tools_used |-> used,
     confidence |-> IF used # << >> THEN 90 ELSE 50,
     error |-> ""]

\* lines 89-98
MissingUserId ==
    [response |-> "User ID is required", agent |-> SupportName, tools_used |-> << >>,
     confidence |-> 0, error |-> "Missing user_id"]

\* lines 189-207: the except branch
SupportError ==
    [response |-> "I encountered an error", agent |-> SupportName, tools_used |-> << >>,
     confidence |-> 0, error |-> ErrMsg]

supportFrame == <<registry, history, routerVars, tpc, tlog, caseLocals, harnessVars, readVars,
                  retrieverVars, endpointVars>>

\* the support handler has been constructed
InitSupport ==
    /\ registry = register(<< >>, SelfMetadata(SupportName, 1))
    /\ history = <<SelfMetadata(SupportName, 1)>>
    /\ pc = "Idle"
    /\ RouterIdle
    /\ TestIdle

\* from the rest of the calls of one response to the next await: the next named
\* call is executed (lines 130-148), or the next iteration asks the oracle again
\* (line 122), or the loop is exhausted and process returns (lines 168-188)
SupportContinue(msgs, used, rest) ==
    /\ messages' = msgs
    /\ LET pending == SkipNameless(rest)
       IN IF pending # << >>
          THEN /\ spc' = "Tool"
               /\ tool_calls' = pending
               /\ tools_used' = Append(used, Head(pending))
               /\ UNCHANGED <<iteration, sreply>>
          ELSE IF iteration + 1 < max_iterations
          THEN /\ spc' = "Oracle"
               /\ iteration' = iteration + 1
               /\ tool_calls' = << >>
               /\ tools_used' = used
               /\ UNCHANGED sreply
          ELSE /\ spc' = "Done"
               /\ tool_calls' = << >>
               /\ tools_used' = used
               /\ sreply' = SupportResult(msgs, used)
               /\ UNCHANGED iteration

\* entry to process up to the first oracle call (lines 83-122)
SupportProcess(user_id) ==
    /\ spc = "Idle"
    /\ IF user_id = ""
       THEN /\ spc' = "Done"
            /\ sreply' = MissingUserId
            /\ UNCHANGED <<iteration, messages, tool_calls, tools_used>>
       ELSE /\ spc' = "Oracle"
            /\ messages' = <<Msg("human", "system_prompt")>>
            /\ iteration' = 0
            /\ UNCHANGED <<tool_calls, tools_used, sreply>>
    /\ UNCHANGED supportFrame

\* llm_with_tools.ainvoke returns or raises (lines 122-127)
SupportOracleReturn(oc) ==
    /\ spc = "Oracle"
    /\ IF oc.kind = "raise"
       THEN /\ spc' = "Done"
            /\ sreply' = SupportError
            /\ UNCHANGED <<iteration, messages, tool_calls, tools_used>>
       ELSE IF oc.calls = << >>
       THEN /\ spc' = "Done"
            /\ messages' = Append(messages, Msg("ai", oc.content))
            /\ sreply' = SupportResult(messages', tools_used)
            /\ UNCHANGED <<iteration, tool_calls, tools_used>>
       ELSE SupportContinue(Append(messages, Msg("ai", oc.content)), tools_used, oc.calls)
    /\ UNCHANGED supportFrame

\* _execute_tool returns (lines 148-157): its text becomes a ToolMessage
SupportToolReturn(oc) ==
    /\ spc = "Tool"
    /\ SupportContinue(Append(messages, Msg("tool", _execute_tool(Head(tool_calls), oc))),
                       tools_used, Tail(tool_calls))
    /\ UNCHANGED supportFrame

NextSupport ==
    \/ \E user_id \in UserIds : SupportProcess(user_id)
    \/ \E oc \in SupportOutcomes : SupportOracleReturn(oc)
    \/ \E oc \in ToolOutcomes : SupportToolReturn(oc)

SpecSupport == InitSupport /\ [][NextSupport]_vars

-----------------------------------------------------------------------------
(* Properties of SupportAgent.process *)

OracleMessages == SelectSeq(messages, LAMBDA m : m.type = "ai")

\* C38: for every sequence of oracle replies SupportAgent.process makes at most 5
\* oracle calls, and the response text it returns is the content of the last
\* oracle message, never the raw content of a tool result
C38_AnswerIsLastOracleMessage ==
    /\ Len(OracleMessages) <= 5
    /\ (spc = "Done" /\ sreply.error = "") =>
          /\ sreply.response = OracleMessages[Len(OracleMessages)].content
          /\ messages[Len(messages)].type # "tool"

-----------------------------------------------------------------------------
(* Retriever.retrieve (rag/retriever.py lines 52-80), one action per await *)

\* the default of the parameter, which retrieve_with_sources (line 84) leaves alone
max_retries == 3

\* an error text, as the parts the code looks for in it
QuotaError == <<"QUOTA_EXCEEDED", ErrMsg>>
Quota429Error == <<"QUOTA_EXCEEDED", "429">>
EmbeddingError == <<"Error generating embedding", ErrMsg>>
Search429Error == <<"429", "Too Many Requests">>
LowercaseQuotaError == <<"quota", ErrMsg>>
SearchError == <<ErrMsg>>
QuotaExceeded == <<"Embedding quota exceeded. Please try again later.">>

Ok == <<"ok">>

\* embeddings.py lines 24-28: every failure of embed_query carries one of two texts
EmbedOutcomes == {Ok, QuotaError, Quota429Error, EmbeddingError}

\* vectorstore.search returns chunks (possibly none) or raises
ChunkLists == {<<"chunk1">>, << >>}
SearchFailures == {Search429Error, LowercaseQuotaError, SearchError}

\* faulty variant: the word quota in any capitalisation counts as a quota error
IsQuotaAnyCase(error_str) ==
    Range(error_str) \cap {"QUOTA_EXCEEDED", "quota", "429"} # {}

\* "QUOTA_EXCEEDED" in error_str or "429" in error_str (line 73)
IsQuota(error_str) == Range(error_str) \cap {"QUOTA_EXCEEDED", "429"} # {}

\* (2 ** attempt) * 5 (line 75)
wait_time(n) == (2 ^ n) * 5

Call3(call, result, wait) == [call |-> call, outcome |-> result, wait |-> wait]

retrieverFrame == <<registry, history, routerVars, tpc, tlog, caseLocals, harnessVars, readVars,
                    supportVars, endpointVars>>

\* the knowledge handler, which owns the retriever, has been constructed
InitRetriever ==
    /\ registry = register(<< >>, SelfMetadata(KnowledgeName, 1))
    /\ history = <<SelfMetadata(KnowledgeName, 1)>>
    /\ pc = "Idle"
    /\ RouterIdle
    /\ TestIdle

\* the except branch of one attempt (lines 71-80)
AttemptFailed(call, error_str) ==
    IF IsQuota(error_str)
    THEN IF attempt < max_retries - 1
         THEN /\ rpc' = "Sleep"
              /\ rlog' = Append(rlog, Call3(call, error_str, 0))
              /\ UNCHANGED <<attempt, rresult>>
         ELSE /\ rpc' = "Done"
              /\ rlog' = Append(rlog, Call3(call, error_str, 0))
              /\ rresult' = [kind |-> "raised", value |-> QuotaExceeded]
              /\ UNCHANGED attempt
    ELSE /\ rpc' = "Done"
         /\ rlog' = Append(rlog, Call3(call, error_str, 0))
         /\ rresult' = [kind |-> "raised", value |-> error_str]
         /\ UNCHANGED attempt

\* entry to retrieve up to the translation's oracle call (lines 52-60, 39)
Retrieve ==
    /\ rpc = "Idle"
    /\ rpc' = "Translate"
    /\ UNCHANGED <<attempt, rlog, rresult, retrieverFrame>>

\* _translate_to_portuguese returns the translation, or the query itself when the
\* oracle raised (lines 39-50); the first attempt starts (lines 62-64)
TranslateReturn(oc) ==
    /\ rpc = "Translate"
    /\ rlog' = Append(rlog, Call3("translate", oc, 0))
    /\ IF 0 < max_retries
       THEN /\ rpc' = "Embed"
            /\ attempt' = 0
            /\ UNCHANGED rresult
       ELSE /\ rpc' = "Done"
            /\ rresult' = [kind |-> "returned", value |-> <<"None">>]
            /\ UNCHANGED attempt
    /\ UNCHANGED retrieverFrame

\* embed_query returns or raises (line 64)
EmbedReturn(oc) ==
    /\ rpc = "Embed"
    /\ IF oc = Ok
       THEN /\ rpc' = "Search"
            /\ rlog' = Append(rlog, Call3("embed", Ok, 0))
            /\ UNCHANGED <<attempt, rresult>>
       ELSE AttemptFailed("embed", oc)
    /\ UNCHANGED retrieverFrame

\* vectorstore.search returns its chunks (lines 65-70)
SearchReturn(chunks) ==
    /\ rpc = "Search"
    /\ rpc' = "Done"
    /\ rlog' = Append(rlog, Call3("search", Ok, 0))
    /\ rresult' = [kind |-> "returned", value |-> chunks]
    /\ UNCHANGED <<attempt, retrieverFrame>>

\* vectorstore.search raises (lines 65-80)
SearchRaise(error_str) ==
    /\ rpc = "Search"
    /\ AttemptFailed("search", error_str)
    /\ UNCHANGED retrieverFrame

\* asyncio.sleep(wait_time) returns and the loop goes on (lines 76-77, 62-64)
SleepReturn ==
    /\ rpc = "Sleep"
    /\ rlog' = Append(rlog, Call3("sleep", Ok, wait_time(attempt)))
    /\ attempt' = attempt + 1
    /\ rpc' = "Embed"
    /\ UNCHANGED <<rresult, retrieverFrame>>

NextRetriever ==
    \/ Retrieve
    \/ \E oc \in {Ok, SearchError} : TranslateReturn(oc)
    \/ \E oc \in EmbedOutcomes : EmbedReturn(oc)
    \/ \E chunks \in ChunkLists : SearchReturn(chunks)
    \/ \E error_str \in SearchFailures : SearchRaise(error_str)
    \/ SleepReturn

SpecRetriever == InitRetriever /\ [][NextRetriever]_vars

-----------------------------------------------------------------------------
(* Properties of Retriever.retrieve *)

\* the attempts made so far: each starts with a call of embed_query
Attempts ==
    Len(SelectSeq(rlog, LAMBDA e : e.call = "embed"))
    + (IF rpc = "Embed" THEN 1 ELSE 0)

\* the text has one of the two markers of a quota error
HasQuotaMarker(text) == \E k \in DOMAIN text : text[k] = "QUOTA_EXCEEDED" \/ text[k] = "429"

Failed(e) == e.call \in {"embed", "search"} /\ e.outcome # Ok

\* C39: retrieve makes at most max_retries (3) embed-and-search attempts; it
\* returns the first successful result; it retries only after an error whose
\* text contains QUOTA_EXCEEDED or 429; any other error is re-raised at once,
\* without a retry; a quota error on the last attempt raises "Embedding quota
\* exceeded"; and it never finishes without either a result or an error
C39_BoundedRetry ==
    /\ Attempts <= 3
    /\ \A k \in DOMAIN rlog :
          /\ (rlog[k].call = "search" /\ rlog[k].outcome = Ok) =>
                /\ k = Len(rlog)
                /\ rpc = "Done"
                /\ rresult.kind = "returned"
                /\ rresult.value \in ChunkLists
          /\ rlog[k].call = "sleep" =>
                /\ Failed(rlog[k - 1])
                /\ HasQuotaMarker(rlog[k - 1].outcome)
          /\ (Failed(rlog[k]) /\ ~HasQuotaMarker(rlog[k].outcome)) =>
                /\ k = Len(rlog)
                /\ rpc = "Done"
                /\ rresult = [kind |-> "raised", value |-> rlog[k].outcome]
          /\ (Failed(rlog[k]) /\ HasQuotaMarker(rlog[k].outcome)) =>
                IF Len(SelectSeq(SubSeq(rlog, 1, k), LAMBDA e : e.call = "embed")) = 3
                THEN /\ k = Len(rlog)
                     /\ rpc = "Done"
                     /\ rresult = [kind |-> "raised", value |-> QuotaExceeded]
                ELSE /\ rpc # "Done" \/ k < Len(rlog)
                     /\ k < Len(rlog) => rlog[k + 1].call = "sleep"
    /\ rpc = "Done" =>
          \/ rresult.kind = "returned" /\ rresult.value \in ChunkLists
          \/ rresult.kind = "raised" /\ rresult.value # << >>
    /\ rpc # "Done" => rresult = NoRetrieval

\* C39 witness: two attempts met a quota error (one from embed_query, one with
\* 429 from the search), each was followed by a sleep, and the third attempt
\* returned its chunks
C39_Witness ==
    /\ rpc = "Done"
    /\ rresult = [kind |-> "returned", value |-> <<"chunk1">>]
    /\ [k \in DOMAIN rlog |-> rlog[k].call] =
          <<"translate", "embed", "sleep", "embed", "search", "sleep", "embed", "search">>
    /\ rlog[2].outcome = QuotaError
    /\ rlog[5].outcome = Search429Error
    /\ rlog[3].wait = 5 /\ rlog[6].wait = 10

\* C39 witness of the exhausted budget: the third attempt met a quota error and
\* "Embedding quota exceeded" was raised
C39_WitnessExhausted ==
    /\ rpc = "Done"
    /\ rresult = [kind |-> "raised", value |-> QuotaExceeded]
    /\ Attempts = 3

-----------------------------------------------------------------------------
(* The /api/test endpoint (routers/agent_router.py lines 53-79) *)

TestingName == "testing_agent"

\* an entry registered under the testing handler's name without an instance
TestingEntryNoInstance ==
    AgentMetadata(TestingName, {"system_testing"}, {"test_execution"}, 1, NoInstance)

\* the registries the endpoint can meet: after startup, before startup (only the
\* module-level router has registered), and with an entry that has no instance
EndpointRegistries ==
    TestRegistries \cup
    {<<SelfMetadata(RouterName, 1)>>,
     <<SelfMetadata(RouterName, 1), KnowledgeEntry(2)>>,
     <<SelfMetadata(RouterName, 1), TestingEntryNoInstance>>}

\* line 58: the entry is there and has an instance
TestingAvailable(reg) ==
    /\ Len(get_agent(reg, TestingName)) = 1
    /\ get_agent(reg, TestingName)[1].agent_instance # NoInstance

\* str(HTTPException(404, "Testing agent not found"))
NotFoundText == "404: Testing agent not found"

\* HTTPException(status_code, detail)
HTTPException(status_code, detail) == [status |-> status_code, detail |-> detail]

\* lines 78-79: whatever exception left the try block, the HTTPException of line 59
\* included, becomes a 500
OuterHandler(text) == HTTPException(500, <<"Error running test", text>>)

InitEndpoint ==
    /\ registry \in EndpointRegistries
    /\ history = << >>
    /\ pc = "Idle"
    /\ RouterIdle
    /\ tpc = "Idle"
    /\ test_case = NoCase
    /\ agent_result = NoResult
    /\ cmp_reply = NoCompare
    /\ comparison = VerdictDefault
    /\ case_result = NoOutcome
    /\ case_outcome = "pending"
    /\ tlog = << >>
    /\ message = << >>
    /\ test_suite \in Corpora
    /\ hpc = "Idle"
    /\ results = << >>
    /\ treply = NoReply
    /\ toutcome = "pending"

\* the request arrives (lines 54-68): the lookup, then either the 404 raised inside
\* the try block, or the call of the testing handler's process, whose body runs
\* as the harness's own steps
TestEndpoint(msg) ==
    /\ epc = "Idle"
    /\ hpc = "Idle"
    /\ IF TestingAvailable(registry)
       THEN /\ epc' = "Process"
            /\ message' = msg
            /\ hpc' = "Received"
            /\ UNCHANGED http
       ELSE /\ epc' = "Done"
            /\ http' = OuterHandler(NotFoundText)
            /\ UNCHANGED <<message, hpc>>
    /\ UNCHANGED <<registry, history, readVars, supportVars, retrieverVars, routerVars, tpc, tlog,
                   caseLocals, test_suite, results, treply, toutcome>>

\* process returned or raised (lines 68-79)
EndpointReturn ==
    /\ epc = "Process"
    /\ hpc = "Done"
    /\ epc' = "Done"
    /\ http' = IF toutcome = "returned"
               THEN HTTPException(200, <<"TestResponse">>)
               ELSE OuterHandler(ErrMsg)
    /\ UNCHANGED <<registry, history, readVars, supportVars, retrieverVars, routerVars, tpc, tlog,
                   caseLocals, harnessVars>>

NextEndpoint ==
    \/ \E msg \in Messages : TestEndpoint(msg)
    \/ NextHarness
    \/ EndpointReturn

SpecEndpoint == InitEndpoint /\ [][NextEndpoint]_vars

-----------------------------------------------------------------------------
(* Properties of the /api/test endpoint *)

\* the registry has no entry named testing_agent that carries an instance
NoLiveTesting ==
    \A k \in DOMAIN registry :
        registry[k].name = "testing_agent" => registry[k].agent_instance = NoInstance

\* C40: when no testing_agent entry with a live instance is in the registry, the
\* endpoint answers 404 "Testing agent not found"; status 500 is produced only
\* for failures raised while the testing handler runs
C40_NotFoundIs404 ==
    epc = "Done" =>
        /\ NoLiveTesting => http = [status |-> 404, detail |-> <<"Testing agent not found">>]
        /\ http.status = 500 => (hpc = "Done" /\ toutcome = "raised")

====
